---- MODULE Spec2Model ----
(***************************************************************************)
(* Real-time arbitrage monitor: the in-memory MarketStore                  *)
(* (market_store.py), the streaming client KalshiWSClient                  *)
(* (kalshi_ws_client.py) and the orchestrator RealTimeArbitrageBot         *)
(* (bot_ws.py).                                                            *)
(*                                                                         *)
(* Python dicts are functions with a finite domain, lists are sequences,   *)
(* a price level [price, count] is the pair <<price, count>>.              *)
(***************************************************************************)
EXTENDS Integers, Sequences, FiniteSets, TLC

VARIABLES
    markets,          \* MarketStore.markets: ticker -> snapshot dict
    orderbooks,       \* MarketStore.orderbooks: ticker -> {"yes", "no", "ts"}
    event_markets,    \* MarketStore.event_markets: event -> list of tickers
    now,              \* the wall clock read by time.time()
    ws,               \* KalshiWSClient.ws: "none", or the transport's state
    subscriptions,    \* KalshiWSClient.subscriptions, in insertion order:
                      \*   a sequence of <<channel, list of tickers>>
    handlers,         \* KalshiWSClient.handlers: channel -> list of callbacks
    is_running,       \* KalshiWSClient.is_running
    reconnect_delay,  \* KalshiWSClient._reconnect_delay
    pc,               \* where connect() and the reconnect path stand
    sent,             \* the commands the last step wrote to the transport
    callerFailed,     \* a subscribe() call has raised into its caller
    stopCalled,       \* stop() has been called
    failStreak,       \* transport failures since the last successful connect
    waits,            \* backoff delays slept since the last successful connect
    frames,           \* the frames _listen has taken off this connection
    lpos,             \* where _listen stands: <<"none" | "recv" | "call" |
                      \*   "await", index of the handler>>
    active_calls,     \* the handler calls begun and not yet returned:
                      \*   <<number of the frame, index of the handler>>
    calls,            \* the handler calls begun on this connection, in order
    lock,             \* MarketStore._lock: the symbol whose sync_market holds
                      \*   it, "" when it is free
    cpu,              \* the sync_market the event loop is running between two
                      \*   awaits, "" when it runs none
    sync_pc,          \* where the sync_market of each symbol of the batch
                      \*   stands: "todo", "market", "book", "done", "failed"
    batch_pc,         \* where start()'s batch loop stands
    batch_at,         \* the index in active_tickers the batch begins at
    bot_is_running,   \* RealTimeArbitrageBot.is_running
    event_tickers,    \* RealTimeArbitrageBot.event_tickers, in insertion order:
                      \*   a sequence of <<event, list of tickers>>
    active_tickers,   \* RealTimeArbitrageBot.active_tickers
    msg_count,        \* RealTimeArbitrageBot.msg_count
    last_alert,       \* RealTimeArbitrageBot.last_alert: key -> time
    alert_log,        \* every alert printed so far: key -> list of times
    listing,          \* all_markets of start(): the listing it selects from,
                      \*   <<>> before start() has fetched it
    rest_pc,          \* where the REST call in progress stands: "idle",
                      \*   "request", "sleeping", "retry"
    rest_call,        \* <<the client method called, the symbol>>
    rest_response,    \* the last response of session.request
    request_count,    \* KalshiClient.request_count
    rest_waits,       \* the times the call in progress has slept on a 429
    rest_result,      \* how the last call of a client method ended
    wire,             \* the subscribe commands sent on the current
                      \*   connection, in the order they were sent
    replay            \* where _resubscribe stands: <<>> when it is not
                      \*   running, else <<index of the next channel, number
                      \*   of channels when its iteration began>>

storeVars == <<markets, orderbooks, event_markets>>
connVars == <<ws, subscriptions, handlers, is_running, reconnect_delay, pc, sent,
              callerFailed, stopCalled, failStreak, waits>>
listenVars == <<frames, lpos, active_calls, calls>>
startVars == <<lock, cpu, sync_pc, batch_pc, batch_at>>
botVars == <<bot_is_running, event_tickers, active_tickers, msg_count, last_alert,
             alert_log, listing>>
restVars == <<rest_pc, rest_call, rest_response, request_count, rest_waits, rest_result>>
wireVars == <<wire, replay>>
vars == <<markets, orderbooks, event_markets, now, ws, subscriptions, handlers,
          is_running, reconnect_delay, pc, sent, callerFailed, stopCalled,
          failStreak, waits, frames, lpos, active_calls, calls, lock, cpu,
          sync_pc, batch_pc, batch_at, bot_is_running,
          event_tickers, active_tickers, msg_count, last_alert, alert_log,
          listing, rest_pc, rest_call, rest_response, request_count, rest_waits,
          rest_result, wire, replay>>

----------------------------------------------------------------------------
(* Bounds of the model and the input sets of the environment.              *)

\* Largest size a price level is driven to by the modelled venue.
MaxSize == 2
\* Largest number of price levels the modelled venue keeps in the store.
MaxLevels == 3

Tickers == {"A", "B"}
Events == {"E1"}
Prices == {40, 50, 60}
Sides == {"yes", "no"}
Deltas == {-2, -1, 0, 1, 2}

\* Python's None for a numeric field, and for a string key.
None == -1
NoneStr == ""

\* The elements of a list.
Elements(list) == {list[i] : i \in 1..Len(list)}

\* dict.get(key) for a numeric value and for a string value.
Get(d, k) == IF k \in DOMAIN d THEN d[k] ELSE None
GetStr(d, k) == IF k \in DOMAIN d THEN d[k] ELSE NoneStr

----------------------------------------------------------------------------
(* Order-book sides.                                                       *)

\* list.sort(key=lambda x: x[0], reverse=True): a stable sort, descending by
\* price, computed by insertion; Place puts one level behind every level
\* whose price is at least its own.
RECURSIVE Place(_, _)
Place(sorted, level) ==
    IF sorted = <<>> THEN <<level>>
    ELSE IF Head(sorted)[1] >= level[1]
         THEN <<Head(sorted)>> \o Place(Tail(sorted), level)
         ELSE <<level>> \o sorted

RECURSIVE SortDescFrom(_, _)
SortDescFrom(sorted, rest) ==
    IF rest = <<>> THEN sorted
    ELSE SortDescFrom(Place(sorted, Head(rest)), Tail(rest))

\* The sort without reverse=True: ascending by price.
SortAsc(levels) ==
    LET desc == SortDescFrom(<<>>, levels) IN
    [i \in 1..Len(desc) |-> desc[Len(desc) + 1 - i]]

SortDesc(levels) == SortDescFrom(<<>>, levels)

\* The index of the first level at the price, 0 when there is none
\* (the for/enumerate scan with its break).
FindLevel(levels, price) ==
    IF \E i \in 1..Len(levels) : levels[i][1] = price
    THEN CHOOSE i \in 1..Len(levels) :
            /\ levels[i][1] = price
            /\ \A j \in 1..(i - 1) : levels[j][1] # price
    ELSE 0

\* list.pop(0), whatever the index of the level found.
PopFirst(levels, i) == Tail(levels)

\* list.pop(i)
PopAt(levels, i) == SubSeq(levels, 1, i - 1) \o SubSeq(levels, i + 1, Len(levels))

\* The level appended and the side left as it is.
InsertLevelUnsorted(levels, price, delta) == Append(levels, <<price, delta>>)

\* The level appended at an unmatched price, then the side re-sorted.
InsertLevel(levels, price, delta) == SortDesc(Append(levels, <<price, delta>>))

\* A level is kept at a size of zero, removed only below it.
EmptiedBelowZero(new_count) == new_count < 0

\* if new_count <= 0: the level is removed.
Emptied(new_count) == new_count <= 0

\* The level is inserted at an unmatched price whatever the sign of the delta.
ApplyDeltaInsertingAny(levels, price, delta) ==
    LET i == FindLevel(levels, price) IN
    IF i > 0
    THEN LET new_count == levels[i][2] + delta IN
         IF Emptied(new_count) THEN PopAt(levels, i)
         ELSE [levels EXCEPT ![i] = <<price, new_count>>]
    ELSE InsertLevel(levels, price, delta)

\* The body of handle_orderbook_delta on one side: update or remove the level
\* found, insert a level when none is found and the delta is positive.
ApplyDelta(levels, price, delta) ==
    LET i == FindLevel(levels, price) IN
    IF i > 0
    THEN LET new_count == levels[i][2] + delta IN
         IF Emptied(new_count) THEN PopAt(levels, i)
         ELSE [levels EXCEPT ![i] = <<price, new_count>>]
    ELSE IF delta > 0 THEN InsertLevel(levels, price, delta)
    ELSE levels

\* dict.get(side, []) on a book.
BookSide(book, side) == IF side \in DOMAIN book THEN book[side] ELSE <<>>

\* A delta for a symbol without a book opens a book for it.
handle_orderbook_delta_creating(books, msg, t) ==
    LET ticker == GetStr(msg, "market_ticker") IN
    IF ticker = NoneStr THEN books
    ELSE LET old == IF ticker \in DOMAIN books THEN books[ticker] ELSE <<>>
             current_book == ApplyDelta(BookSide(old, msg.side), msg.price, msg.delta)
             other == IF msg.side = "yes" THEN "no" ELSE "yes"
             book == (msg.side :> current_book) @@ ("ts" :> t) @@ old
                         @@ (other :> <<>>)
         IN  (ticker :> book) @@ books

\* The delta applied to both sides of the book.
handle_orderbook_delta_both_sides(books, msg, t) ==
    LET ticker == GetStr(msg, "market_ticker") IN
    IF ticker = NoneStr \/ ticker \notin DOMAIN books THEN books
    ELSE LET yes == ApplyDelta(BookSide(books[ticker], "yes"), msg.price, msg.delta)
             no == ApplyDelta(BookSide(books[ticker], "no"), msg.price, msg.delta)
         IN  (ticker :> [yes |-> yes, no |-> no, ts |-> t]) @@ books

\* handle_orderbook_delta as a function of the store's books and the frame's
\* msg: ignored without a ticker or without a book for it.
handle_orderbook_delta(books, msg, t) ==
    LET ticker == GetStr(msg, "market_ticker") IN
    IF ticker = NoneStr \/ ticker \notin DOMAIN books THEN books
    ELSE LET current_book ==
                 ApplyDelta(BookSide(books[ticker], msg.side), msg.price, msg.delta)
             book == (msg.side :> current_book) @@ ("ts" :> t) @@ books[ticker]
         IN  (ticker :> book) @@ books

----------------------------------------------------------------------------
(* Market snapshots.                                                       *)

TickerFields == {"yes_bid", "yes_ask", "no_bid", "no_ask", "last_price", "volume", "ts"}

\* handle_ticker_update without its `if not ticker: return`.
handle_ticker_update_keyless(mk, msg) ==
    LET ticker == GetStr(msg, "ticker")
        current == IF ticker \in DOMAIN mk THEN mk[ticker] ELSE <<>>
        update == [f \in TickerFields |-> Get(msg, f)]
    IN  (ticker :> (update @@ current)) @@ mk

\* handle_ticker_update as a function of the store's snapshots and the
\* frame's msg: dict.update with all seven keys, each msg.get(key).
handle_ticker_update(mk, msg) ==
    LET ticker == GetStr(msg, "ticker") IN
    IF ticker = NoneStr THEN mk
    ELSE LET current == IF ticker \in DOMAIN mk THEN mk[ticker] ELSE <<>>
             update == [f \in TickerFields |-> Get(msg, f)]
         IN  (ticker :> (update @@ current)) @@ mk

\* sync_market's market branch: the snapshot is replaced by the REST market
\* and the ticker registered under its event (the ticker itself by default).
SyncedMarkets(mk, ticker, market) ==
    IF market # <<>> THEN (ticker :> market) @@ mk ELSE mk

SyncedEvents(em, ticker, market) ==
    IF market = <<>> THEN em
    ELSE LET event_ticker == IF "event_ticker" \in DOMAIN market
                             THEN market["event_ticker"] ELSE ticker
             members == IF event_ticker \in DOMAIN em THEN em[event_ticker] ELSE <<>>
         IN  IF \E i \in 1..Len(members) : members[i] = ticker
             THEN (event_ticker :> members) @@ em
             ELSE (event_ticker :> Append(members, ticker)) @@ em

\* sync_market's order-book branch: both sides taken as the REST response
\* gives them, [] for a side it lacks.
SyncedBooks(books, ticker, orderbook, t) ==
    IF orderbook = <<>> THEN books
    ELSE LET inner == IF "orderbook" \in DOMAIN orderbook
                      THEN orderbook["orderbook"] ELSE <<>>
         IN  (ticker :> [yes |-> BookSide(inner, "yes"),
                         no |-> BookSide(inner, "no"),
                         ts |-> t]) @@ books

----------------------------------------------------------------------------
(* The REST collaborator's answers and the venue's frames.                 *)

\* get_market_by_ticker: None (here <<>>, as falsy as None) or the market.
RestMarket(t) ==
    IF t = "A"
    THEN [event_ticker |-> "E1", yes_bid |-> 40, yes_ask |-> 45, no_bid |-> 55,
          no_ask |-> 60, last_price |-> 42, volume |-> 10]
    ELSE [yes_bid |-> 40, yes_ask |-> 45, no_bid |-> 55,
          no_ask |-> 60, last_price |-> 42, volume |-> 10]

RestMarkets(t) == {<<>>, RestMarket(t)}

\* get_market_orderbook: None (here <<>>) or the response, its sides in
\* whatever order the venue gives them (the last ascending by price, and
\* without a "no" side). The venue has no order book for ticker B.
RestBooks(t) ==
    IF t = "A"
    THEN {<<>>,
          [orderbook |-> [yes |-> <<>>, no |-> <<>>]],
          [orderbook |-> [yes |-> <<<<60, 1>>, <<40, 2>>>>, no |-> <<<<50, 1>>>>]],
          [orderbook |-> [yes |-> <<<<40, 1>>, <<60, 1>>>>]]}
    ELSE {<<>>}

\* orderbook_delta frames, msg part; the first lacks market_ticker.
DeltaMsgs ==
    {[side |-> "yes", price |-> 50, delta |-> 1]}
        \cup [market_ticker : Tickers, side : Sides, price : Prices, delta : Deltas]

\* The value a ticker frame carries for a field.
FrameValue(f) == IF f \in {"yes_bid", "no_bid"} THEN 41 ELSE 46

\* The fields a ticker frame carries: all, none, one, or all but one.
FrameShapes ==
    {TickerFields, {}} \cup {{f} : f \in TickerFields}
                       \cup {TickerFields \ {f} : f \in TickerFields}

TickerMsgs ==
    {[f \in F |-> FrameValue(f)] : F \in FrameShapes}
        \cup {("ticker" :> t) @@ [f \in F |-> FrameValue(f)] :
                 t \in Tickers, F \in FrameShapes}

\* The sizes of all levels of a book within the venue's bound, and the
\* number of levels of the store.
RECURSIVE SumLevels(_, _)
SumLevels(books, ts) ==
    IF ts = {} THEN 0
    ELSE LET t == CHOOSE x \in ts : TRUE IN
         Len(BookSide(books[t], "yes")) + Len(BookSide(books[t], "no"))
             + SumLevels(books, ts \ {t})

TotalLevels(books) == SumLevels(books, DOMAIN books)

WithinBounds(books) ==
    /\ TotalLevels(books) <= MaxLevels
    /\ \A t \in DOMAIN books : \A s \in DOMAIN books[t] \ {"ts"} :
          \A i \in 1..Len(books[t][s]) : books[t][s][i][2] <= MaxSize

----------------------------------------------------------------------------
(* The streaming client.                                                   *)

\* Most callbacks the modelled caller registers on one channel.
MaxHandlers == 2

\* No backoff at all: a delay of zero.
InitialDelayZero == 1 - 1

\* self._reconnect_delay = 1, at construction and after a successful connect.
InitialDelay == 1
\* self._max_reconnect_delay
MaxReconnectDelay == 60

Channels == {"ticker_v2", "orderbook_delta"}

\* The symbol lists the caller subscribes, one of them naming a symbol twice.
Batches == {<<"A", "B">>, <<"B", "C">>, <<"A", "A">>}

\* The callback the orchestrator registers on a channel.
CallbackFor(channel) ==
    IF channel = "ticker_v2" THEN "_on_ticker_update"
    ELSE IF channel = "orderbook_delta" THEN "_on_orderbook_update"
    ELSE "_on_trade_update"

Min(a, b) == IF a <= b THEN a ELSE b

\* min(self._reconnect_delay * 2, self._max_reconnect_delay)
DoubledDelay(delay) == Min(delay * 2, MaxReconnectDelay)

\* subscriptions[channel], [] for a channel that is no key yet.
Tracked(subs, channel) ==
    IF \E i \in 1..Len(subs) : subs[i][1] = channel
    THEN subs[CHOOSE i \in 1..Len(subs) : subs[i][1] = channel][2]
    ELSE <<>>

IsTracked(list, ticker) == \E i \in 1..Len(list) : list[i] = ticker

\* Everything requested, tracked or not.
AllTickers(tickers, tracked) == tickers

\* new_tickers = [t for t in tickers if t not in self.subscriptions[channel]]
NewTickers(tickers, tracked) == SelectSeq(tickers, LAMBDA t : ~IsTracked(tracked, t))

\* self.subscriptions after subscribe(channel, tickers): the channel's key
\* created when missing, the new tickers appended to its list.
Subscribed(subs, channel, tickers) ==
    LET withKey == IF \E i \in 1..Len(subs) : subs[i][1] = channel
                   THEN subs ELSE Append(subs, <<channel, <<>>>>)
        new_tickers == NewTickers(tickers, Tracked(subs, channel))
    IN  [i \in 1..Len(withKey) |->
            IF withKey[i][1] = channel
            THEN <<channel, withKey[i][2] \o new_tickers>>
            ELSE withKey[i]]

\* The subscribe command of one channel.
SubscribeMsg(channel, tickers) ==
    [cmd |-> "subscribe", channels |-> <<channel>>, market_tickers |-> tickers]

\* One command per tracked channel, with the symbol added last alone.
ResubscribeNewest(subs) ==
    [i \in 1..Len(subs) |->
        SubscribeMsg(subs[i][1], SubSeq(subs[i][2], Len(subs[i][2]), Len(subs[i][2])))]

\* _resubscribe: one command per tracked channel, with its whole list.
Resubscribe(subs) == [i \in 1..Len(subs) |-> SubscribeMsg(subs[i][1], subs[i][2])]

\* The delay left as the failures made it.
DelayKept(delay) == delay

\* self._reconnect_delay = 1 in connect's try block.
DelayAfterConnect(delay) == InitialDelay

\* _handle_reconnect: the backoff sleep starts only when is_running is false.
AfterHandleReconnect(running) == IF ~running THEN "sleeping" ELSE "idle"

\* connect's except branch: _handle_reconnect is called only when is_running.
AfterConnectFailed(running) ==
    IF running THEN AfterHandleReconnect(running) ELSE "idle"

\* The orchestrator's start() calls connect() once.
CallConnect ==
    /\ pc = "init"
    /\ pc' = "connecting0"
    /\ sent' = <<>>
    /\ UNCHANGED <<ws, subscriptions, handlers, is_running, reconnect_delay,
                   callerFailed, stopCalled, failStreak, waits>>
    /\ UNCHANGED <<storeVars, now, botVars>>
    /\ UNCHANGED <<listenVars, startVars>>
    /\ UNCHANGED restVars
    /\ UNCHANGED wireVars

\* websockets.connect succeeds: the rest of connect's try block, with the
\* _listen task it creates on the new connection.
ConnectOK ==
    /\ pc \in {"connecting0", "connecting"}
    /\ ws' = "open"
    /\ is_running' = TRUE
    /\ reconnect_delay' = DelayAfterConnect(reconnect_delay)
    /\ sent' = Resubscribe(subscriptions)
    /\ pc' = "idle"
    /\ failStreak' = 0
    /\ waits' = <<>>
    /\ frames' = <<>>
    /\ lpos' = <<"recv", 0>>
    /\ active_calls' = {}
    /\ calls' = <<>>
    /\ UNCHANGED <<subscriptions, handlers, callerFailed, stopCalled>>
    /\ UNCHANGED <<storeVars, now, botVars>>
    /\ UNCHANGED startVars
    /\ UNCHANGED restVars
    /\ UNCHANGED wireVars

\* websockets.connect raises: connect's except branch.
ConnectFail ==
    /\ pc \in {"connecting0", "connecting"}
    /\ pc' = AfterConnectFailed(is_running)
    /\ waits' = IF pc' = "sleeping" THEN Append(waits, reconnect_delay) ELSE waits
    /\ failStreak' = failStreak + 1
    /\ sent' = <<>>
    /\ UNCHANGED <<ws, subscriptions, handlers, is_running, reconnect_delay,
                   callerFailed, stopCalled>>
    /\ UNCHANGED <<storeVars, now, botVars>>
    /\ UNCHANGED <<listenVars, startVars>>
    /\ UNCHANGED restVars
    /\ UNCHANGED wireVars

\* The transport closes or a receive fails under _listen: its except
\* branches, up to the backoff sleep.
TransportDrop ==
    /\ ws = "open"
    /\ lpos = <<"recv", 0>>
    /\ lpos' = <<"none", 0>>
    /\ UNCHANGED <<frames, active_calls, calls>>
    /\ ws' = "closed"
    /\ is_running' = FALSE
    /\ pc' = AfterHandleReconnect(is_running')
    /\ waits' = IF pc' = "sleeping" THEN Append(waits, reconnect_delay) ELSE waits
    /\ failStreak' = failStreak + 1
    /\ sent' = <<>>
    /\ UNCHANGED <<subscriptions, handlers, reconnect_delay, callerFailed, stopCalled>>
    /\ UNCHANGED <<storeVars, now, botVars>>
    /\ UNCHANGED startVars
    /\ UNCHANGED restVars
    /\ UNCHANGED wireVars

\* asyncio.sleep returns in _handle_reconnect: the delay is doubled and
\* connect() called.
SleepDone ==
    /\ pc = "sleeping"
    /\ reconnect_delay' = DoubledDelay(reconnect_delay)
    /\ pc' = "connecting"
    /\ sent' = <<>>
    /\ UNCHANGED <<ws, subscriptions, handlers, is_running, callerFailed,
                   stopCalled, failStreak, waits>>
    /\ UNCHANGED <<storeVars, now, botVars>>
    /\ UNCHANGED <<listenVars, startVars>>
    /\ UNCHANGED restVars
    /\ UNCHANGED wireVars

\* The command sent whether or not there is a transport.
WireSendUnguarded(transport, msg) == <<msg>>

\* if self.ws: await self.ws.send(...): what goes out on the transport.
WireSend(transport, msg) == IF transport = "open" THEN <<msg>> ELSE <<>>

\* The body of subscribe(channel, tickers, handler); a send on a closed
\* transport raises into the caller, which makes no further call.
SubscribeBody(channel, tickers) ==
    /\ ~callerFailed
    /\ Len(IF channel \in DOMAIN handlers THEN handlers[channel] ELSE <<>>) < MaxHandlers
    /\ handlers' = (channel :> Append(IF channel \in DOMAIN handlers
                                      THEN handlers[channel] ELSE <<>>,
                                      CallbackFor(channel))) @@ handlers
    /\ subscriptions' = Subscribed(subscriptions, channel, tickers)
    /\ LET new_tickers == NewTickers(tickers, Tracked(subscriptions, channel)) IN
       /\ sent' = IF new_tickers # <<>>
                  THEN WireSend(ws, SubscribeMsg(channel, new_tickers)) ELSE <<>>
       /\ callerFailed' = (new_tickers # <<>> /\ ws = "closed")
    /\ UNCHANGED <<ws, is_running, reconnect_delay, pc, stopCalled, failStreak, waits>>

\* subscribe() as the orchestrator calls it: after its connect() returned.
SubscribeCall(channel, tickers) ==
    /\ pc \notin {"init", "connecting0"}
    /\ SubscribeBody(channel, tickers)

\* subscribe() called before connect() has returned: self.ws is still None.
EarlySubscribe(channel, tickers) ==
    /\ pc \in {"init", "connecting0"}
    /\ SubscribeBody(channel, tickers)
    /\ UNCHANGED <<storeVars, now, botVars>>
    /\ UNCHANGED <<listenVars, startVars>>
    /\ UNCHANGED restVars
    /\ UNCHANGED wireVars

\* A subscribe call of a caller that does nothing else.
Subscribe(channel, tickers) ==
    /\ SubscribeCall(channel, tickers)
    /\ UNCHANGED <<storeVars, now, botVars>>
    /\ UNCHANGED <<listenVars, startVars>>
    /\ UNCHANGED restVars
    /\ UNCHANGED wireVars

\* websockets.connect succeeds, with _resubscribe taken one send at a time:
\* connect's try block up to the first await of _resubscribe, the command of
\* the first tracked channel sent. A send still pending on the transport
\* before has failed by the time the backoff sleep is over.
ConnectBegin ==
    /\ pc \in {"connecting0", "connecting"}
    /\ replay = <<>>
    /\ ws' = "open"
    /\ is_running' = TRUE
    /\ reconnect_delay' = DelayAfterConnect(reconnect_delay)
    /\ sent' = IF subscriptions = <<>> THEN <<>> ELSE <<Resubscribe(subscriptions)[1]>>
    /\ wire' = sent'
    /\ replay' = IF subscriptions = <<>> THEN <<>> ELSE <<2, Len(subscriptions)>>
    /\ pc' = "idle"
    /\ failStreak' = 0
    /\ waits' = <<>>
    /\ frames' = <<>>
    /\ lpos' = <<"recv", 0>>
    /\ active_calls' = {}
    /\ calls' = <<>>
    /\ UNCHANGED <<subscriptions, handlers, callerFailed, stopCalled>>
    /\ UNCHANGED <<storeVars, now, botVars>>
    /\ UNCHANGED startVars
    /\ UNCHANGED restVars

\* _resubscribe goes on after an awaited send: the iteration over
\* self.subscriptions.items() raises when a key was added meanwhile, the
\* send raises on a closed transport (both end in connect's except branch,
\* which does nothing more), the iteration ends, or the command of the next
\* channel is sent with the channel's list as it is now.
ReplayStep ==
    /\ replay # <<>>
    /\ IF ws # "open" \/ Len(subscriptions) # replay[2] \/ replay[1] > replay[2]
       THEN /\ replay' = <<>>
            /\ sent' = <<>>
            /\ UNCHANGED wire
       ELSE /\ sent' = <<Resubscribe(subscriptions)[replay[1]]>>
            /\ wire' = wire \o sent'
            /\ replay' = <<replay[1] + 1, replay[2]>>
    /\ UNCHANGED <<ws, subscriptions, handlers, is_running, reconnect_delay, pc,
                   callerFailed, stopCalled, failStreak, waits>>
    /\ UNCHANGED <<storeVars, now, botVars>>
    /\ UNCHANGED <<listenVars, startVars>>
    /\ UNCHANGED restVars

\* A subscribe call of the batch loop, with what it sends kept.
SubscribeOnWire(channel, tickers) ==
    /\ SubscribeCall(channel, tickers)
    /\ wire' = wire \o sent'
    /\ UNCHANGED replay
    /\ UNCHANGED <<storeVars, now, botVars>>
    /\ UNCHANGED <<listenVars, startVars>>
    /\ UNCHANGED restVars

\* stop(): the flag cleared and the transport closed. A _listen that is
\* reading ends quietly on a normal closure (clean) and takes its except
\* branch when the close handshake fails.
StopCall(clean) ==
    /\ pc \notin {"init"}
    /\ lpos[1] \in {"none", "recv"}
    /\ lpos' = IF ws = "open" THEN <<"none", 0>> ELSE lpos
    /\ UNCHANGED <<frames, active_calls, calls>>
    /\ stopCalled' = TRUE
    /\ is_running' = FALSE
    /\ ws' = IF ws = "open" THEN "closed" ELSE ws
    /\ IF ws = "open" /\ lpos[1] = "recv" /\ ~clean
       THEN /\ pc' = AfterHandleReconnect(is_running')
            /\ waits' = IF pc' = "sleeping" THEN Append(waits, reconnect_delay) ELSE waits
            /\ failStreak' = failStreak + 1
       ELSE UNCHANGED <<pc, waits, failStreak>>
    /\ sent' = <<>>
    /\ UNCHANGED <<subscriptions, handlers, reconnect_delay, callerFailed>>

\* A stop() call of a caller that does nothing else.
Stop(clean) ==
    /\ StopCall(clean)
    /\ UNCHANGED <<storeVars, now, botVars>>
    /\ UNCHANGED startVars
    /\ UNCHANGED restVars
    /\ UNCHANGED wireVars

----------------------------------------------------------------------------
(* The receive loop _listen of one connection.                             *)

\* Most frames the modelled venue sends on one connection.
MaxFrames == 3

\* The frames of the venue: text frames (the heartbeat, a text that is no
\* JSON, a JSON list, three JSON objects with a type) and a binary frame.
Frames ==
    [is_str : {TRUE},
     text : {"heartbeat", "<html>", "[1]", "{type: ticker_v2}",
             "{type: orderbook_delta}", "{type: trade}"}]
        \cup {[is_str |-> FALSE, text |-> "0x00"]}

\* json.loads(message): whether it returns, whether what it returns is a
\* dict, and the dict's "type".
JsonLoads(text) ==
    CASE text = "{type: ticker_v2}" ->
             [ok |-> TRUE, is_dict |-> TRUE, type |-> "ticker_v2"]
      [] text = "{type: orderbook_delta}" ->
             [ok |-> TRUE, is_dict |-> TRUE, type |-> "orderbook_delta"]
      [] text = "{type: trade}" ->
             [ok |-> TRUE, is_dict |-> TRUE, type |-> "trade"]
      [] text = "[1]" -> [ok |-> TRUE, is_dict |-> FALSE, type |-> NoneStr]
      [] OTHER -> [ok |-> FALSE, is_dict |-> FALSE, type |-> NoneStr]

\* The frame cannot be decoded as a structured message: a text that is no
\* JSON, JSON that is no object, or a binary frame.
Undecodable(frame) ==
    IF frame.is_str
    THEN frame.text # "heartbeat" /\ ~JsonLoads(frame.text).is_dict
    ELSE TRUE

\* The decode error raised out of the loop's body.
DecodeErrorRaised == "raise"

\* except: print(...); continue
OnDecodeError == "continue"

\* The heartbeat taken for a failure of the connection.
DecodeHeartbeatFatal(frame) ==
    IF frame.is_str
    THEN IF frame.text = "heartbeat" THEN "raise"
         ELSE IF ~JsonLoads(frame.text).ok THEN OnDecodeError
         ELSE IF ~JsonLoads(frame.text).is_dict THEN "continue"
         ELSE "dispatch"
    ELSE "continue"

\* What the loop's body does with a frame before it dispatches: "continue"
\* with the next frame, "raise", or "dispatch".
Decode(frame) ==
    IF frame.is_str
    THEN IF frame.text = "heartbeat" THEN "continue"
         ELSE IF ~JsonLoads(frame.text).ok THEN OnDecodeError
         ELSE IF ~JsonLoads(frame.text).is_dict THEN "continue"
         ELSE "dispatch"
    ELSE "continue"

\* msg_type = data.get("type")
MsgType(frame) == JsonLoads(frame.text).type

\* self.handlers[msg_type], [] when msg_type is no key.
HandlersFor(hs, msg_type) == IF msg_type \in DOMAIN hs THEN hs[msg_type] ELSE <<>>

\* The handlers of the frame being dispatched.
CurrentHandlers == HandlersFor(handlers, MsgType(frames[Len(frames)]))

\* The loop after handler k of n has returned: the next handler, or the
\* next frame.
AfterReturn(k, n) == IF k < n THEN <<"call", k + 1>> ELSE <<"recv", 0>>

\* The handler started as a task of its own, the loop going on at once.
AfterCallDetached(k, n) == AfterReturn(k, n)

\* await handler(data), or handler(data): the loop waits for the handler.
AfterCall(k, n) == <<"await", k>>

\* The loop going on after the exception that went through its except
\* branch.
ListenerFailsLoopKept ==
    /\ is_running' = FALSE
    /\ pc' = AfterHandleReconnect(is_running')
    /\ waits' = IF pc' = "sleeping" THEN Append(waits, reconnect_delay) ELSE waits
    /\ failStreak' = failStreak + 1
    /\ lpos' = <<"recv", 0>>

\* An exception leaves the loop: _listen's except Exception branch, up to
\* the backoff sleep. The transport stays as it is.
ListenerFails ==
    /\ is_running' = FALSE
    /\ pc' = AfterHandleReconnect(is_running')
    /\ waits' = IF pc' = "sleeping" THEN Append(waits, reconnect_delay) ELSE waits
    /\ failStreak' = failStreak + 1
    /\ lpos' = <<"none", 0>>

\* async for message in self.ws: one frame taken, up to the first handler
\* call or to the next frame.
Receive(frame) ==
    /\ ws = "open"
    /\ lpos = <<"recv", 0>>
    /\ Len(frames) < MaxFrames
    /\ frames' = Append(frames, frame)
    /\ IF Decode(frame) = "raise"
       THEN ListenerFails
       ELSE /\ lpos' = IF Decode(frame) = "dispatch"
                            /\ HandlersFor(handlers, MsgType(frame)) # <<>>
                       THEN <<"call", 1>> ELSE <<"recv", 0>>
            /\ UNCHANGED <<is_running, pc, waits, failStreak>>
    /\ sent' = <<>>
    /\ UNCHANGED <<active_calls, calls>>
    /\ UNCHANGED <<ws, subscriptions, handlers, reconnect_delay, callerFailed,
                   stopCalled>>
    /\ UNCHANGED <<storeVars, now, botVars>>
    /\ UNCHANGED startVars
    /\ UNCHANGED restVars
    /\ UNCHANGED wireVars

\* The loop calls the next handler of the frame.
CallHandler ==
    /\ lpos[1] = "call"
    /\ calls' = Append(calls, <<Len(frames), lpos[2]>>)
    /\ active_calls' = active_calls \cup {<<Len(frames), lpos[2]>>}
    /\ lpos' = AfterCall(lpos[2], Len(CurrentHandlers))
    /\ UNCHANGED frames
    /\ UNCHANGED <<storeVars, now, connVars, botVars, startVars>>
    /\ UNCHANGED restVars
    /\ UNCHANGED wireVars

\* A handler returns; the loop, when it waits for it, goes on.
HandlerReturns ==
    \E h \in active_calls :
        /\ active_calls' = active_calls \ {h}
        /\ lpos' = IF lpos = <<"await", h[2]>> /\ h[1] = Len(frames)
                   THEN AfterReturn(h[2], Len(CurrentHandlers)) ELSE lpos
        /\ UNCHANGED <<frames, calls>>
        /\ UNCHANGED <<storeVars, now, connVars, botVars, startVars>>
        /\ UNCHANGED restVars
        /\ UNCHANGED wireVars

\* The handler the loop waits for raises.
HandlerRaises ==
    /\ lpos[1] = "await"
    /\ <<Len(frames), lpos[2]>> \in active_calls
    /\ active_calls' = active_calls \ {<<Len(frames), lpos[2]>>}
    /\ ListenerFails
    /\ sent' = <<>>
    /\ UNCHANGED <<frames, calls>>
    /\ UNCHANGED <<ws, subscriptions, handlers, reconnect_delay, callerFailed,
                   stopCalled>>
    /\ UNCHANGED <<storeVars, now, botVars>>
    /\ UNCHANGED startVars
    /\ UNCHANGED restVars
    /\ UNCHANGED wireVars

----------------------------------------------------------------------------
(* The orchestrator.                                                       *)

\* Most frames the modelled venue delivers.
MaxMsgCount == 4
\* The last instant of the modelled clock.
MaxTime == 31

\* alert_cooldown
AlertCooldown == 30
\* event_volumes[:20]
TopEvents == 20

\* The steps of the clock between two frames.
TickSteps == {30, 31}

\* str(status).lower()
Lower(status) ==
    IF status = "Open" THEN "open" ELSE IF status = "Active" THEN "active" ELSE status

IsOpen(m) == Lower(m.status) \in {"open", "active"}

\* m.get('volume_24h', 0) or 0
Volume(m) == IF "volume_24h" \in DOMAIN m THEN m["volume_24h"] ELSE 0

\* market.get('event_ticker', market.get('ticker'))
EventKeyOf(m) == IF "event_ticker" \in DOMAIN m THEN m["event_ticker"] ELSE m.ticker

\* The ascending sort of the pairs, the items alone.
SortedByKeyAsc(pairs) ==
    LET sorted == SortAsc(pairs) IN [i \in 1..Len(sorted) |-> sorted[i][2]]

\* list.sort(key=..., reverse=True) over <<key, item>> pairs, the items alone.
SortedByKeyDesc(pairs) ==
    LET sorted == SortDesc(pairs) IN [i \in 1..Len(sorted) |-> sorted[i][2]]

\* active_markets: open or active with a positive volume, all the open or
\* active ones when there is none; sorted by volume, descending.
ActiveMarkets(all_markets) ==
    LET traded == SelectSeq(all_markets, LAMBDA m : IsOpen(m) /\ Volume(m) > 0)
        active == IF traded # <<>> THEN traded ELSE SelectSeq(all_markets, IsOpen)
    IN  SortedByKeyDesc([i \in 1..Len(active) |-> <<Volume(active[i]), active[i]>>])

\* event_groups: the markets of each event, the events in the order of
\* their first market.
RECURSIVE GroupByEvent(_, _)
GroupByEvent(groups, ms) ==
    IF ms = <<>> THEN groups
    ELSE LET m == Head(ms)
             e == EventKeyOf(m)
             next ==
                 IF \E i \in 1..Len(groups) : groups[i][1] = e
                 THEN [i \in 1..Len(groups) |->
                         IF groups[i][1] = e
                         THEN <<e, Append(groups[i][2], m)>> ELSE groups[i]]
                 ELSE Append(groups, <<e, <<m>>>>)
         IN  GroupByEvent(next, Tail(ms))

RECURSIVE SumVolume(_)
SumVolume(ms) == IF ms = <<>> THEN 0 ELSE Volume(Head(ms)) + SumVolume(Tail(ms))

\* selected_events: the groups sorted by their summed volume, descending,
\* the first TopEvents of them.
SelectedEvents(all_markets) ==
    LET groups == GroupByEvent(<<>>, ActiveMarkets(all_markets))
        ranked == SortedByKeyDesc(
                      [i \in 1..Len(groups) |-> <<SumVolume(groups[i][2]), groups[i]>>])
    IN  SubSeq(ranked, 1, Min(TopEvents, Len(ranked)))

TickersOf(ms) == [i \in 1..Len(ms) |-> ms[i].ticker]

RECURSIVE Flatten(_)
Flatten(groups) ==
    IF groups = <<>> THEN <<>> ELSE TickersOf(Head(groups)[2]) \o Flatten(Tail(groups))

\* The listings get_events_with_markets returns.
Listings ==
    {<<[ticker |-> "A", event_ticker |-> "E1", status |-> "open", volume_24h |-> 10],
       [ticker |-> "B", event_ticker |-> "E1", status |-> "Active", volume_24h |-> 5]>>,
     <<[ticker |-> "B", event_ticker |-> "E2", status |-> "open", volume_24h |-> 7],
       [ticker |-> "A", event_ticker |-> "E1", status |-> "active", volume_24h |-> 9]>>}

\* get_market_summary(ticker)["event_ticker"]: market.get("event_ticker", ticker)
SummaryEvent(mk, ticker) ==
    IF "event_ticker" \in DOMAIN mk[ticker] THEN mk[ticker]["event_ticker"] ELSE ticker

\* get_market_summary(ticker) is not None
HasSummary(mk, ticker) == ticker \in DOMAIN mk /\ mk[ticker] # <<>>

\* The gate with >= for >: open again at the end of the window.
GateOpenAtWindow(la, key, t) == key \notin DOMAIN la \/ (t - la[key]) >= AlertCooldown

\* ticker not in self.last_alert
\*     or (current_time - self.last_alert[ticker]) > alert_cooldown
GateOpen(la, key, t) == key \notin DOMAIN la \/ (t - la[key]) > AlertCooldown

\* The first event of event_tickers that lists the ticker, "" when none does.
EventOf(et, ticker) ==
    IF \E i \in 1..Len(et) : IsTracked(et[i][2], ticker)
    THEN et[CHOOSE i \in 1..Len(et) :
                /\ IsTracked(et[i][2], ticker)
                /\ \A j \in 1..(i - 1) : ~IsTracked(et[j][2], ticker)][1]
    ELSE NoneStr

MembersOf(et, event) == Tracked(et, event)

EventAlertKey(event) == "event:" \o event

\* The time recorded whenever the gate lets the symbol pass, whatever the
\* analyzer answers.
SingleAlertOnEveryPass(mk, la, ticker, t, single_opp) ==
    /\ ticker # NoneStr
    /\ HasSummary(mk, ticker)
    /\ GateOpen(la, ticker, t)

\* The single-market half of _check_arbitrage fires an alert.
SingleAlert(mk, la, ticker, t, single_opp) ==
    /\ ticker # NoneStr
    /\ HasSummary(mk, ticker)
    /\ GateOpen(la, ticker, t)
    /\ single_opp

\* event_markets: the summaries of the event's members that have one.
KnownMembers(mk, et, event) ==
    SelectSeq(MembersOf(et, event), LAMBDA m : HasSummary(mk, m))

\* One known member is enough.
OneMemberEnough(known) == Len(known) >= 1

\* The event is analysed only with more than one known member.
EnoughMembers(known) == Len(known) > 1

\* The multi-way half of _check_arbitrage fires an alert; la is last_alert
\* as the single-market half left it.
EventAlert(mk, et, la, ticker, t, event_opp) ==
    LET event == EventOf(et, ticker) IN
    /\ ticker # NoneStr
    /\ event # NoneStr
    /\ Len(MembersOf(et, event)) > 1
    /\ GateOpen(la, EventAlertKey(event), t)
    /\ EnoughMembers(KnownMembers(mk, et, event))
    /\ event_opp

\* The keys _check_arbitrage(ticker) alerts for, given what the analyzer
\* answers for the market and for the event.
AlertedKeys(mk, et, la, ticker, t, single_opp, event_opp) ==
    LET single == IF SingleAlert(mk, la, ticker, t, single_opp) THEN {ticker} ELSE {}
        la1 == [k \in single |-> t] @@ la
    IN  single \cup (IF EventAlert(mk, et, la1, ticker, t, event_opp)
                     THEN {EventAlertKey(EventOf(et, ticker))} ELSE {})

\* _check_arbitrage(ticker) on the snapshots mk.
CheckArbitrage(mk, ticker, single_opp, event_opp) ==
    LET keys == AlertedKeys(mk, event_tickers, last_alert, ticker, now,
                            single_opp, event_opp)
    IN  /\ last_alert' = [k \in keys |-> now] @@ last_alert
        /\ alert_log' =
               [k \in keys |->
                   Append(IF k \in DOMAIN alert_log THEN alert_log[k] ELSE <<>>, now)]
                   @@ alert_log

\* start(), up to its first await: the selection of the symbols to track.
Start(all_markets) ==
    /\ ~bot_is_running
    /\ listing = <<>>
    /\ bot_is_running' = TRUE
    /\ listing' = all_markets
    /\ LET selected == SelectedEvents(all_markets) IN
       /\ event_tickers' =
              [i \in 1..Len(selected) |-> <<selected[i][1], TickersOf(selected[i][2])>>]
       /\ active_tickers' = Flatten(selected)
    /\ UNCHANGED <<msg_count, last_alert, alert_log>>
    /\ UNCHANGED <<storeVars, now, connVars>>
    /\ UNCHANGED <<listenVars, startVars>>
    /\ UNCHANGED restVars
    /\ UNCHANGED wireVars

\* _on_ticker_update(data)
OnTickerUpdate(msg, single_opp, event_opp) ==
    /\ bot_is_running
    /\ cpu = NoneStr
    /\ msg_count < MaxMsgCount
    /\ msg_count' = msg_count + 1
    /\ markets' = handle_ticker_update(markets, msg)
    /\ CheckArbitrage(markets', GetStr(msg, "ticker"), single_opp, event_opp)
    /\ UNCHANGED <<orderbooks, event_markets, now, bot_is_running, event_tickers,
                   active_tickers, listing>>
    /\ UNCHANGED connVars
    /\ UNCHANGED <<listenVars, startVars>>
    /\ UNCHANGED restVars
    /\ UNCHANGED wireVars

\* _on_orderbook_update(data)
OnOrderbookUpdate(msg, single_opp, event_opp) ==
    /\ bot_is_running
    /\ cpu = NoneStr
    /\ msg_count < MaxMsgCount
    /\ msg_count' = msg_count + 1
    /\ orderbooks' = handle_orderbook_delta(orderbooks, msg, now)
    /\ WithinBounds(orderbooks')
    /\ CheckArbitrage(markets, GetStr(msg, "market_ticker"), single_opp, event_opp)
    /\ UNCHANGED <<markets, event_markets, now, bot_is_running, event_tickers,
                   active_tickers, listing>>
    /\ UNCHANGED connVars
    /\ UNCHANGED <<listenVars, startVars>>
    /\ UNCHANGED restVars
    /\ UNCHANGED wireVars

\* The books after n handlers in turn have applied the frame's delta.
RECURSIVE AppliedBy(_, _, _, _)
AppliedBy(n, books, msg, t) ==
    IF n = 0 THEN books
    ELSE handle_orderbook_delta(AppliedBy(n - 1, books, msg, t), msg, t)

\* _listen dispatches one orderbook_delta frame: every entry of
\* handlers["orderbook_delta"] is awaited in turn, each entry being
\* _on_orderbook_update, for which the analyzer finds nothing.
DispatchDelta(msg) ==
    LET n == Len(HandlersFor(handlers, "orderbook_delta")) IN
    /\ ws = "open"
    /\ lpos = <<"recv", 0>>
    /\ cpu = NoneStr
    /\ n >= 1
    /\ msg_count + n <= MaxMsgCount
    /\ msg_count' = msg_count + n
    /\ orderbooks' = AppliedBy(n, orderbooks, msg, now)
    /\ WithinBounds(orderbooks')
    /\ CheckArbitrage(markets, GetStr(msg, "market_ticker"), FALSE, FALSE)
    /\ UNCHANGED <<markets, event_markets, now, bot_is_running, event_tickers,
                   active_tickers, listing>>
    /\ UNCHANGED connVars
    /\ UNCHANGED <<listenVars, startVars>>
    /\ UNCHANGED restVars
    /\ UNCHANGED wireVars

\* A trade of a symbol drops the symbol's book.
OnTradeUpdateDroppingBook(msg, single_opp, event_opp) ==
    /\ bot_is_running
    /\ cpu = NoneStr
    /\ msg_count < MaxMsgCount
    /\ msg_count' = msg_count + 1
    /\ orderbooks' = [t \in DOMAIN orderbooks \ {GetStr(msg, "market_ticker")} |->
                         orderbooks[t]]
    /\ CheckArbitrage(markets, GetStr(msg, "market_ticker"), single_opp, event_opp)
    /\ UNCHANGED <<markets, event_markets, now, bot_is_running, event_tickers,
                   active_tickers, listing>>
    /\ UNCHANGED connVars
    /\ UNCHANGED <<listenVars, startVars>>
    /\ UNCHANGED restVars
    /\ UNCHANGED wireVars

\* _on_trade_update(data)
OnTradeUpdate(msg, single_opp, event_opp) ==
    /\ bot_is_running
    /\ cpu = NoneStr
    /\ msg_count < MaxMsgCount
    /\ msg_count' = msg_count + 1
    /\ CheckArbitrage(markets, GetStr(msg, "market_ticker"), single_opp, event_opp)
    /\ UNCHANGED <<storeVars, now, bot_is_running, event_tickers, active_tickers,
                   listing>>
    /\ UNCHANGED connVars
    /\ UNCHANGED <<listenVars, startVars>>
    /\ UNCHANGED restVars
    /\ UNCHANGED wireVars

\* The orchestrator's stop(), run as a task of its own while start() waits
\* at one of its awaits (in connect(), in the gather, in a send, in a
\* sleep): is_running cleared and the client's stop() called.
BotStop(clean) ==
    /\ listing # <<>>
    /\ pc = "connecting0" \/ batch_pc \notin {"none", "crashed"}
    /\ cpu = NoneStr
    /\ ~stopCalled
    /\ bot_is_running' = FALSE
    /\ StopCall(clean)
    /\ UNCHANGED <<event_tickers, active_tickers, msg_count, last_alert, alert_log,
                   listing>>
    /\ UNCHANGED <<storeVars, now, startVars>>
    /\ UNCHANGED restVars
    /\ UNCHANGED wireVars

\* The clock advances.
Tick(d) ==
    /\ now + d <= MaxTime
    /\ now' = now + d
    /\ UNCHANGED <<storeVars, connVars, botVars>>
    /\ UNCHANGED <<listenVars, startVars>>
    /\ UNCHANGED restVars
    /\ UNCHANGED wireVars

----------------------------------------------------------------------------
(* The REST client: _make_request and the two methods the store calls.     *)

\* Most calls of a client method in a run.
MaxRequests == 2

\* wait_time = 60, and the default of headers.get('Retry-After', '60')
DefaultRetryAfter == 60

RestMethods == {"get_market_by_ticker", "get_market_orderbook"}

NoResponse == [kind |-> "none", status |-> 0, retry_after |-> NoneStr, body |-> NoneStr]

\* What session.request gives: it raises (no connection, a timeout), or it
\* returns a response: 200 with a JSON object, an object without "market",
\* a JSON list or a body that is no JSON; 404; 500; 429 without a
\* Retry-After header, with a number in it, or with a text that is none.
Responses ==
    {[kind |-> "error", status |-> 0, retry_after |-> NoneStr, body |-> NoneStr]}
        \cup [kind : {"response"}, status : {200}, retry_after : {NoneStr},
              body : {"object", "empty", "list", "invalid"}]
        \cup [kind : {"response"}, status : {404, 500}, retry_after : {NoneStr},
              body : {"invalid"}]
        \cup [kind : {"response"}, status : {429}, retry_after : {NoneStr, "1", "soon"},
              body : {"invalid"}]

\* int(retry_after) returns; it raises ValueError otherwise.
IsInt(text) == text \in {"1", "60"}

\* int(retry_after)
IntOf(text) == IF text = "1" THEN 1 ELSE DefaultRetryAfter

\* The try block of _make_request on a response, at the first request
\* ("request") or at the one retry after a 429 ("retry"): it sleeps before
\* the retry, returns the decoded body, or raises; wait is the time slept
\* on the way.
MakeRequestStep(stage, resp) ==
    IF resp.kind = "error"
    THEN [next |-> "raised", error |-> "ConnectionError", wait |-> 0, json |-> NoneStr]
    ELSE IF resp.status = 429 /\ stage = "request"
    THEN IF resp.retry_after = NoneStr
         THEN [next |-> "sleeping", error |-> NoneStr, wait |-> DefaultRetryAfter,
               json |-> NoneStr]
         ELSE IF IsInt(resp.retry_after)
         THEN [next |-> "sleeping", error |-> NoneStr, wait |-> IntOf(resp.retry_after),
               json |-> NoneStr]
         ELSE [next |-> "raised", error |-> "ValueError", wait |-> 0, json |-> NoneStr]
    ELSE IF resp.status = 429
    THEN IF resp.retry_after = NoneStr \/ IsInt(resp.retry_after)
         THEN [next |-> "raised", error |-> "HTTPError",
               wait |-> IF resp.retry_after = NoneStr THEN DefaultRetryAfter
                        ELSE IntOf(resp.retry_after),
               json |-> NoneStr]
         ELSE [next |-> "raised", error |-> "ValueError", wait |-> 0, json |-> NoneStr]
    ELSE IF resp.status >= 400
    THEN [next |-> "raised", error |-> "HTTPError", wait |-> 0, json |-> NoneStr]
    ELSE IF resp.body = "invalid"
    THEN [next |-> "raised", error |-> "JSONDecodeError", wait |-> 0, json |-> NoneStr]
    ELSE [next |-> "returned", error |-> NoneStr, wait |-> 0, json |-> resp.body]

\* Only the errors of the requests library are caught.
CaughtRequestErrors(error) == error \in {"ConnectionError", "HTTPError"}

\* except Exception: every error _make_request and the method's own body
\* raise is an Exception.
Caught(error) == TRUE

NoResult == [raised |-> FALSE, value |-> "pending"]

\* An error in the try block of a client method: caught, None returned.
MethodFails(error) ==
    IF Caught(error) THEN [raised |-> FALSE, value |-> "None"]
    ELSE [raised |-> TRUE, value |-> error]

\* get_market_by_ticker and get_market_orderbook on what _make_request
\* did: response.get("market"), or the response itself.
MethodResult(method, outcome) ==
    IF outcome.next = "raised" THEN MethodFails(outcome.error)
    ELSE IF method = "get_market_by_ticker"
    THEN IF outcome.json = "object" THEN [raised |-> FALSE, value |-> "market"]
         ELSE IF outcome.json = "empty" THEN [raised |-> FALSE, value |-> "None"]
         ELSE MethodFails("AttributeError")
    ELSE [raised |-> FALSE, value |-> outcome.json]

\* A client method is called and _make_request sends the request.
RestCall(method, ticker) ==
    /\ rest_pc = "idle"
    /\ request_count < MaxRequests
    /\ rest_pc' = "request"
    /\ rest_call' = <<method, ticker>>
    /\ request_count' = request_count + 1
    /\ rest_response' = NoResponse
    /\ rest_waits' = <<>>
    /\ rest_result' = NoResult
    /\ UNCHANGED <<storeVars, now, connVars, listenVars, startVars, botVars>>
    /\ UNCHANGED wireVars

\* session.request returns or raises, and the call goes on to its sleep
\* before the retry or to its end in the client method.
RestRespond(resp) ==
    /\ rest_pc \in {"request", "retry"}
    /\ rest_response' = resp
    /\ LET outcome == MakeRequestStep(rest_pc, resp) IN
       /\ rest_waits' = IF outcome.wait > 0 THEN Append(rest_waits, outcome.wait)
                        ELSE rest_waits
       /\ IF outcome.next = "sleeping"
          THEN rest_pc' = "sleeping" /\ UNCHANGED rest_result
          ELSE /\ rest_pc' = "idle"
               /\ rest_result' = MethodResult(rest_call[1], outcome)
    /\ UNCHANGED <<rest_call, request_count>>
    /\ UNCHANGED <<storeVars, now, connVars, listenVars, startVars, botVars>>
    /\ UNCHANGED wireVars

\* time.sleep(wait_time) returns: the request is sent once more.
RestWake ==
    /\ rest_pc = "sleeping"
    /\ rest_pc' = "retry"
    /\ UNCHANGED <<rest_call, rest_response, request_count, rest_waits, rest_result>>
    /\ UNCHANGED <<storeVars, now, connVars, listenVars, startVars, botVars>>
    /\ UNCHANGED wireVars

----------------------------------------------------------------------------
(* The store's operations.                                                 *)

InitStore ==
    /\ markets = <<>>
    /\ orderbooks = <<>>
    /\ event_markets = <<>>
    /\ now = 0

InitConn ==
    /\ ws = "none"
    /\ subscriptions = <<>>
    /\ handlers = <<>>
    /\ is_running = FALSE
    /\ reconnect_delay = InitialDelay
    /\ pc = "init"
    /\ sent = <<>>
    /\ callerFailed = FALSE
    /\ stopCalled = FALSE
    /\ failStreak = 0
    /\ waits = <<>>

InitListen ==
    /\ frames = <<>>
    /\ lpos = <<"none", 0>>
    /\ active_calls = {}
    /\ calls = <<>>

InitStart ==
    /\ lock = NoneStr
    /\ cpu = NoneStr
    /\ sync_pc = <<>>
    /\ batch_pc = "none"
    /\ batch_at = 0

InitBot ==
    /\ bot_is_running = FALSE
    /\ event_tickers = <<>>
    /\ active_tickers = <<>>
    /\ msg_count = 0
    /\ last_alert = <<>>
    /\ alert_log = <<>>
    /\ listing = <<>>

InitRest ==
    /\ rest_pc = "idle"
    /\ rest_call = <<NoneStr, NoneStr>>
    /\ rest_response = NoResponse
    /\ request_count = 0
    /\ rest_waits = <<>>
    /\ rest_result = NoResult

InitWire ==
    /\ wire = <<>>
    /\ replay = <<>>

Init ==
    /\ InitStore /\ InitConn /\ InitListen /\ InitStart /\ InitBot /\ InitRest
    /\ InitWire

\* MarketStore.sync_market(ticker), with what the two REST calls return.
SyncMarket(ticker, market, orderbook) ==
    /\ markets' = SyncedMarkets(markets, ticker, market)
    /\ event_markets' = SyncedEvents(event_markets, ticker, market)
    /\ orderbooks' = SyncedBooks(orderbooks, ticker, orderbook, now)
    /\ WithinBounds(orderbooks')
    /\ UNCHANGED now
    /\ UNCHANGED <<connVars, botVars>>
    /\ UNCHANGED <<listenVars, startVars>>
    /\ UNCHANGED restVars
    /\ UNCHANGED wireVars

\* MarketStore.handle_ticker_update(data) with data["msg"] = msg.
HandleTickerUpdate(msg) ==
    /\ markets' = handle_ticker_update(markets, msg)
    /\ UNCHANGED <<orderbooks, event_markets, now>>
    /\ UNCHANGED <<connVars, botVars>>
    /\ UNCHANGED <<listenVars, startVars>>
    /\ UNCHANGED restVars
    /\ UNCHANGED wireVars

\* MarketStore.handle_orderbook_delta(data) with data["msg"] = msg.
HandleOrderbookDelta(msg) ==
    /\ orderbooks' = handle_orderbook_delta(orderbooks, msg, now)
    /\ WithinBounds(orderbooks')
    /\ UNCHANGED <<markets, event_markets, now>>
    /\ UNCHANGED <<connVars, botVars>>
    /\ UNCHANGED <<listenVars, startVars>>
    /\ UNCHANGED restVars
    /\ UNCHANGED wireVars

Bootstrap ==
    \E t \in Tickers : \E m \in RestMarkets(t) : \E ob \in RestBooks(t) :
        SyncMarket(t, m, ob)

----------------------------------------------------------------------------
(* start()'s batches: the sync_market tasks of a batch, gathered, and the  *)
(* three subscribe calls that follow them.                                 *)

\* range(0, len(self.active_tickers), 5)
BatchSize == 5

\* batch = self.active_tickers[i:i+5], with i counted from 1.
BatchOf(tickers, i) == SubSeq(tickers, i, Min(i + BatchSize - 1, Len(tickers)))

\* The REST calls are awaited: the event loop runs other tasks meanwhile.
RestCallAwaited == TRUE

\* The REST client is synchronous (requests): a call blocks the event loop,
\* and no other task runs between the lock's acquisition and its release.
RestCallYields == FALSE

\* The task the event loop runs while sync_market(ticker) is inside its
\* async with block.
InsideSync(ticker) == IF RestCallYields THEN NoneStr ELSE ticker

\* The response {"orderbook": null} of the order-book call, written as a
\* record of its own.
NullBook == [orderbook_null |-> TRUE]

\* A missing order book raises, like a malformed one.
BookRaisesWhenMissing(orderbook) ==
    orderbook = <<>> \/ "orderbook_null" \in DOMAIN orderbook

\* orderbook.get("orderbook", {}).get("yes", []) raises on a response whose
\* "orderbook" is null; a response of None is skipped by "if orderbook".
BookRaises(orderbook) == "orderbook_null" \in DOMAIN orderbook

\* The gather returns with the first task that is done.
AnySynced(sp) == \E t \in DOMAIN sp : sp[t] = "done"

\* await asyncio.gather(*sync_tasks) returns when every task is done.
AllSynced(sp) == \A t \in DOMAIN sp : sp[t] = "done"

\* The stage of the batch loop after the subscribe call on a channel.
AfterSubscribe(channel) ==
    IF channel = "ticker_v2" THEN "orderbook_delta"
    ELSE IF channel = "orderbook_delta" THEN "trade"
    ELSE "sleep"

\* The batch loop takes its next batch and creates the batch's sync_market
\* tasks, or ends when no symbol is left.
BeginBatch ==
    /\ listing # <<>>
    /\ pc \notin {"init", "connecting0"}
    /\ cpu = NoneStr
    /\ batch_pc \in {"none", "sleep"}
    /\ batch_at' = IF batch_pc = "none" THEN 1 ELSE batch_at + BatchSize
    /\ IF batch_at' <= Len(active_tickers)
       THEN /\ batch_pc' = "gather"
            /\ sync_pc' = [t \in Elements(BatchOf(active_tickers, batch_at')) |-> "todo"]
       ELSE /\ batch_pc' = "operational"
            /\ sync_pc' = sync_pc
    /\ UNCHANGED <<lock, cpu>>
    /\ UNCHANGED <<storeVars, now, connVars, listenVars, botVars>>
    /\ UNCHANGED restVars
    /\ UNCHANGED wireVars

\* sync_market(ticker) acquires the free lock.
SyncEnter(ticker) ==
    /\ batch_pc \in {"gather", "crashed"}
    /\ ticker \in DOMAIN sync_pc
    /\ sync_pc[ticker] = "todo"
    /\ lock = NoneStr
    /\ cpu = NoneStr
    /\ lock' = ticker
    /\ cpu' = InsideSync(ticker)
    /\ sync_pc' = [sync_pc EXCEPT ![ticker] = "market"]
    /\ UNCHANGED <<batch_pc, batch_at>>
    /\ UNCHANGED <<storeVars, now, connVars, listenVars, botVars>>
    /\ UNCHANGED restVars
    /\ UNCHANGED wireVars

\* get_market_by_ticker returns and the snapshot is written.
SyncFetchMarket(ticker, market) ==
    /\ ticker \in DOMAIN sync_pc
    /\ sync_pc[ticker] = "market"
    /\ cpu = InsideSync(ticker)
    /\ markets' = SyncedMarkets(markets, ticker, market)
    /\ event_markets' = SyncedEvents(event_markets, ticker, market)
    /\ sync_pc' = [sync_pc EXCEPT ![ticker] = "book"]
    /\ UNCHANGED <<orderbooks, now, lock, cpu, batch_pc, batch_at>>
    /\ UNCHANGED <<connVars, listenVars, botVars>>
    /\ UNCHANGED restVars
    /\ UNCHANGED wireVars

\* get_market_orderbook returns, the book is written and the lock released;
\* an exception leaves the async with block, releasing the lock, and is
\* raised by the gather into start().
SyncFetchBook(ticker, orderbook) ==
    /\ ticker \in DOMAIN sync_pc
    /\ sync_pc[ticker] = "book"
    /\ cpu = InsideSync(ticker)
    /\ IF BookRaises(orderbook)
       THEN /\ sync_pc' = [sync_pc EXCEPT ![ticker] = "failed"]
            /\ batch_pc' = "crashed"
            /\ UNCHANGED orderbooks
       ELSE /\ orderbooks' = SyncedBooks(orderbooks, ticker, orderbook, now)
            /\ WithinBounds(orderbooks')
            /\ sync_pc' = [sync_pc EXCEPT ![ticker] = "done"]
            /\ UNCHANGED batch_pc
    /\ lock' = NoneStr
    /\ cpu' = NoneStr
    /\ UNCHANGED <<markets, event_markets, now, batch_at>>
    /\ UNCHANGED <<connVars, listenVars, botVars>>
    /\ UNCHANGED restVars
    /\ UNCHANGED wireVars

\* The gather returns into start().
GatherDone ==
    /\ batch_pc = "gather"
    /\ cpu = NoneStr
    /\ AllSynced(sync_pc)
    /\ batch_pc' = "ticker_v2"
    /\ UNCHANGED <<lock, cpu, sync_pc, batch_at>>
    /\ UNCHANGED <<storeVars, now, connVars, listenVars, botVars>>
    /\ UNCHANGED restVars
    /\ UNCHANGED wireVars

\* One of the three subscribe calls of the batch; a call that raises ends
\* start().
BatchSubscribe(channel) ==
    /\ batch_pc = channel
    /\ cpu = NoneStr
    /\ SubscribeCall(channel, BatchOf(active_tickers, batch_at))
    /\ batch_pc' = IF callerFailed' THEN "crashed" ELSE AfterSubscribe(channel)
    /\ UNCHANGED <<lock, cpu, sync_pc, batch_at>>
    /\ UNCHANGED <<storeVars, now, listenVars, botVars>>
    /\ UNCHANGED restVars
    /\ UNCHANGED wireVars

NextBook ==
    \/ Bootstrap
    \/ \E msg \in DeltaMsgs : HandleOrderbookDelta(msg)

SpecBook == Init /\ [][NextBook]_vars

NextQuote ==
    \/ Bootstrap
    \/ \E msg \in TickerMsgs : HandleTickerUpdate(msg)

SpecQuote == Init /\ [][NextQuote]_vars

NextConn ==
    \/ CallConnect
    \/ ConnectOK
    \/ ConnectFail
    \/ TransportDrop
    \/ SleepDone
    \/ \E channel \in Channels : \E tickers \in Batches : Subscribe(channel, tickers)
    \/ \E clean \in BOOLEAN : Stop(clean)

SpecConn == Init /\ [][NextConn]_vars

\* The receive loop on the first connection of a client, the caller
\* registering its handlers.
NextListen ==
    \/ CallConnect
    \/ ConnectOK
    \/ \E channel \in Channels : Subscribe(channel, <<"A", "B">>)
    \/ \E frame \in Frames : Receive(frame)
    \/ CallHandler
    \/ HandlerReturns
    \/ HandlerRaises
    \/ TransportDrop

SpecListen == Init /\ [][NextListen]_vars

\* The frames the venue delivers to the orchestrator's callbacks.
BotTickerMsgs ==
    {[yes_bid |-> 41], [ticker |-> "A", yes_bid |-> 41], [ticker |-> "B", yes_ask |-> 46]}

BotDeltaMsgs ==
    {[side |-> "yes", price |-> 50, delta |-> 1],
     [market_ticker |-> "A", side |-> "yes", price |-> 50, delta |-> 2],
     [market_ticker |-> "B", side |-> "no", price |-> 50, delta |-> 1]}

TradeMsgs == {[count |-> 1], [market_ticker |-> "A", count |-> 1]}

\* The bootstraps of the orchestrator's run: the order book of A, when the
\* REST call returns one, is empty.
BotRestBooks(t) ==
    IF t = "A" THEN {<<>>, [orderbook |-> [yes |-> <<>>, no |-> <<>>]]} ELSE {<<>>}

NextBot ==
    \/ \E all_markets \in Listings : Start(all_markets)
    \/ \E t \in Tickers : \E m \in RestMarkets(t) : \E ob \in BotRestBooks(t) :
          SyncMarket(t, m, ob)
    \/ \E msg \in BotTickerMsgs : \E single_opp, event_opp \in BOOLEAN :
          OnTickerUpdate(msg, single_opp, event_opp)
    \/ \E msg \in BotDeltaMsgs : \E single_opp, event_opp \in BOOLEAN :
          OnOrderbookUpdate(msg, single_opp, event_opp)
    \/ \E msg \in TradeMsgs : \E single_opp, event_opp \in BOOLEAN :
          OnTradeUpdate(msg, single_opp, event_opp)
    \/ \E d \in TickSteps : Tick(d)

SpecBot == Init /\ [][NextBot]_vars

\* The REST answers of a startup: the order-book call returns nothing, an
\* empty book, or, for B, the response whose "orderbook" is null.
StartRestBooks(t) ==
    IF t = "A" THEN {<<>>, [orderbook |-> [yes |-> <<>>, no |-> <<>>]]}
    ELSE {<<>>, NullBook}

\* The startup of the orchestrator, with frames arriving meanwhile for
\* which the analyzer finds nothing.
NextStart ==
    \/ \E all_markets \in Listings : Start(all_markets)
    \/ CallConnect
    \/ ConnectOK
    \/ ConnectFail
    \/ BeginBatch
    \/ \E t \in Tickers : SyncEnter(t)
    \/ \E t \in Tickers : \E m \in RestMarkets(t) : SyncFetchMarket(t, m)
    \/ \E t \in Tickers : \E ob \in StartRestBooks(t) : SyncFetchBook(t, ob)
    \/ GatherDone
    \/ \E channel \in {"ticker_v2", "orderbook_delta", "trade"} : BatchSubscribe(channel)
    \/ \E msg \in BotTickerMsgs : OnTickerUpdate(msg, FALSE, FALSE)
    \/ \E msg \in BotDeltaMsgs : OnOrderbookUpdate(msg, FALSE, FALSE)
    \/ \E clean \in BOOLEAN : BotStop(clean)
    \/ SleepDone

SpecStart == Init /\ [][NextStart]_vars

\* The calls of the REST client.
NextRest ==
    \/ \E method \in RestMethods : \E ticker \in Tickers : RestCall(method, ticker)
    \/ \E resp \in Responses : RestRespond(resp)
    \/ RestWake

SpecRest == Init /\ [][NextRest]_vars

\* orderbook_delta frames whose side is neither "yes" nor "no", next to
\* frames for the two sides at the same price.
SideMsgs ==
    [market_ticker : Tickers, side : {"yes", "no", "maybe"}, price : {50},
     delta : {-1, 1, 2}]

\* The store under deltas that name any side.
NextSide ==
    \/ Bootstrap
    \/ \E msg \in SideMsgs : HandleOrderbookDelta(msg)

SpecSide == Init /\ [][NextSide]_vars

\* The frames of a connection that is lost and made again.
ReconnectFrames ==
    {[is_str |-> TRUE, text |-> "heartbeat"], [is_str |-> TRUE, text |-> "{type: ticker_v2}"]}

\* The client over several connections: the receive loop, its failures, the
\* backoff and the caller's subscribe and stop calls.
NextReconnect ==
    \/ CallConnect
    \/ ConnectOK
    \/ ConnectFail
    \/ SleepDone
    \/ TransportDrop
    \/ \E tickers \in {<<"A">>, <<"B">>} : Subscribe("ticker_v2", tickers)
    \/ \E frame \in ReconnectFrames : Receive(frame)
    \/ CallHandler
    \/ HandlerReturns
    \/ HandlerRaises
    \/ \E clean \in BOOLEAN : Stop(clean)

SpecReconnect == Init /\ [][NextReconnect]_vars

\* A client whose caller subscribes before, while and after its first
\* connect() is made.
NextEarly ==
    \/ CallConnect
    \/ ConnectOK
    \/ ConnectFail
    \/ \E channel \in Channels : \E tickers \in Batches : EarlySubscribe(channel, tickers)
    \/ \E channel \in Channels : \E tickers \in Batches : Subscribe(channel, tickers)

SpecEarly == Init /\ [][NextEarly]_vars

\* The order-book frames dispatched to the registered callbacks.
FanoutMsgs == [market_ticker : {"A"}, side : {"yes"}, price : {50}, delta : {-1, 1}]

\* Bootstraps, a connection, the orderbook_delta subscribe calls of two
\* startup batches, and the frames dispatched to what they registered.
NextFanout ==
    \/ Bootstrap
    \/ CallConnect
    \/ ConnectOK
    \/ \E batch \in {<<"A">>, <<"B">>} : Subscribe("orderbook_delta", batch)
    \/ \E msg \in FanoutMsgs : DispatchDelta(msg)

SpecFanout == Init /\ [][NextFanout]_vars

\* The subscribe calls of the batch loop next to the replays of a client
\* that loses its connection and makes it again.
NextReplay ==
    \/ CallConnect
    \/ ConnectBegin
    \/ ReplayStep
    \/ \E channel \in Channels : \E tickers \in {<<"A", "B">>, <<"B", "C">>} :
          SubscribeOnWire(channel, tickers)
    \/ TransportDrop
    \/ SleepDone

SpecReplay == Init /\ [][NextReplay]_vars

\* The markets a listing may hold for the symbols A to D: with or without an
\* event key and a volume, open, active or closed, traded or not.
ListedMarkets(t) ==
    CASE t = "A" -> [ticker : {"A"}, event_ticker : {"E1"},
                     status : {"open", "Active", "closed"}, volume_24h : {0, 10}]
      [] t = "B" -> [ticker : {"B"}, event_ticker : {"E1", "E2"},
                     status : {"open", "closed"}, volume_24h : {5, 10}]
      [] t = "C" -> [ticker : {"C"}, event_ticker : {"E2"},
                     status : {"open"}, volume_24h : {0, 5, 10}]
                    \cup [ticker : {"C"}, status : {"open"}, volume_24h : {0, 5, 10}]
      [] OTHER   -> [ticker : {"D"}, event_ticker : {"E1", "E3"},
                     status : {"open", "closed"}, volume_24h : {5}]
                    \cup [ticker : {"D"}, event_ticker : {"E1", "E3"},
                          status : {"open", "closed"}]

\* A listing of more events than start() keeps: one open market for each
\* of 21 events, volumes between 1 and 7, spread by k.
LongListing(k) ==
    [i \in 1..(TopEvents + 1) |->
        [ticker |-> "M" \o ToString(i), event_ticker |-> "L" \o ToString(i),
         status |-> "open", volume_24h |-> ((i * k) % 7) + 1]]

\* The listings get_events_with_markets returns to the selection.
SelectListings ==
    {<<a, b, c, d>> : a \in ListedMarkets("A"), b \in ListedMarkets("B"),
                       c \in ListedMarkets("C"), d \in ListedMarkets("D")}
        \cup {LongListing(k) : k \in 1..3}

\* The selection of start() alone, on each listing.
NextSelect == \E all_markets \in SelectListings : Start(all_markets)

SpecSelect == Init /\ [][NextSelect]_vars

\* The whole program: the store, the client and the orchestrator together.
Next ==
    \/ NextBook \/ NextQuote \/ NextConn \/ NextListen \/ NextBot \/ NextStart
    \/ NextSelect \/ NextRest \/ NextSide \/ NextReconnect \/ NextEarly
    \/ NextFanout \/ NextReplay

Spec == Init /\ [][Next]_vars

----------------------------------------------------------------------------
(* Properties of the order-book sides.                                     *)

SortedDesc(levels) ==
    \A i \in 1..(Len(levels) - 1) : levels[i][1] >= levels[i + 1][1]

StrictlyDesc(levels) ==
    \A i \in 1..(Len(levels) - 1) : levels[i][1] > levels[i + 1][1]

PositiveSizes(levels) == \A i \in 1..Len(levels) : levels[i][2] > 0

WellFormedSide(levels) == StrictlyDesc(levels) /\ PositiveSizes(levels)

PriceAbsent(levels, price) == \A i \in 1..Len(levels) : levels[i][1] # price

Occurrences(levels, level) == Cardinality({i \in 1..Len(levels) : levels[i] = level})

\* The same levels, each as often, in whatever order.
SameLevels(a, b) ==
    /\ Len(a) = Len(b)
    /\ \A i \in 1..Len(a) : Occurrences(a, a[i]) = Occurrences(b, a[i])

\* The frame addresses a side of an existing book with a positive delta at a
\* price the side does not hold.
InsertsLevel(msg) ==
    /\ "market_ticker" \in DOMAIN msg
    /\ msg.market_ticker \in DOMAIN orderbooks
    /\ msg.delta > 0
    /\ PriceAbsent(orderbooks[msg.market_ticker][msg.side], msg.price)

\* C1: every application of an order-book delta leaves each side that was
\* sorted strictly descending by price with positive sizes only in that same
\* form, so a side in that form keeps it over any sequence of deltas.
C1_SideStaysWellFormed ==
    [][\/ \A t \in DOMAIN orderbooks : \A s \in Sides :
              WellFormedSide(orderbooks[t][s]) => WellFormedSide(orderbooks'[t][s])
       \/ ~(\E msg \in DeltaMsgs : HandleOrderbookDelta(msg))]_vars

\* C1 witness: a "no" side no REST answer holds, built by deltas alone
\* (two insertions and an update in place), well formed.
C1_Witness ==
    /\ "A" \in DOMAIN orderbooks
    /\ orderbooks["A"]["no"] = <<<<60, 2>>, <<40, 1>>>>
    /\ WellFormedSide(orderbooks["A"]["no"])

\* C10 as claimed: a positive delta at an absent price inserts exactly one
\* level (price, delta), and the other levels are the side as it was, sizes
\* and order.
C10_InsertKeepsOthersAsTheyWere ==
    [][\A msg \in DeltaMsgs : InsertsLevel(msg) =>
          \/ LET old == orderbooks[msg.market_ticker][msg.side]
                 new == orderbooks'[msg.market_ticker][msg.side]
             IN  /\ Len(new) = Len(old) + 1
                 /\ \E i \in 1..Len(new) :
                       new[i] = <<msg.price, msg.delta>> /\ PopAt(new, i) = old
          \/ ~HandleOrderbookDelta(msg)]_vars

\* C10 amended: a positive delta at an absent price inserts exactly one level
\* (price, delta) and every other level keeps its size; the other levels keep
\* their order among themselves when the side was sorted descending by price
\* before the delta.
C10_InsertKeepsOthers ==
    [][\A msg \in DeltaMsgs : InsertsLevel(msg) =>
          \/ LET old == orderbooks[msg.market_ticker][msg.side]
                 new == orderbooks'[msg.market_ticker][msg.side]
             IN  /\ Len(new) = Len(old) + 1
                 /\ \E i \in 1..Len(new) :
                       /\ new[i] = <<msg.price, msg.delta>>
                       /\ SameLevels(PopAt(new, i), old)
                       /\ SortedDesc(old) => PopAt(new, i) = old
          \/ ~HandleOrderbookDelta(msg)]_vars

\* C10 witness: the level (50, 2) inserted between the two levels of the
\* bootstrapped "yes" side.
C10_Witness ==
    /\ "A" \in DOMAIN orderbooks
    /\ orderbooks["A"]["yes"] = <<<<60, 1>>, <<50, 2>>, <<40, 2>>>>

\* The frame addresses a side of an existing book at a price the side holds.
HitsLevel(msg) ==
    /\ "market_ticker" \in DOMAIN msg
    /\ msg.market_ticker \in DOMAIN orderbooks
    /\ ~PriceAbsent(orderbooks[msg.market_ticker][msg.side], msg.price)

\* C11: a delta at a price the side holds adds the signed delta to the size
\* of that level; a level whose size becomes zero or less is removed, any
\* other result is written in place, and the other levels stay as they were,
\* in their order.
C11_ExistingLevelAdjusted ==
    [][\A msg \in DeltaMsgs : HitsLevel(msg) =>
          \/ LET old == orderbooks[msg.market_ticker][msg.side]
                 new == orderbooks'[msg.market_ticker][msg.side]
             IN  \E i \in 1..Len(old) :
                    /\ old[i][1] = msg.price
                    /\ IF old[i][2] + msg.delta <= 0
                       THEN /\ Len(new) = Len(old) - 1
                            /\ PriceAbsent(new, msg.price)
                            /\ \A j \in 1..(i - 1) : new[j] = old[j]
                            /\ \A j \in i..Len(new) : new[j] = old[j + 1]
                       ELSE /\ Len(new) = Len(old)
                            /\ new[i] = <<msg.price, old[i][2] + msg.delta>>
                            /\ \A j \in 1..Len(old) : j # i => new[j] = old[j]
          \/ ~HandleOrderbookDelta(msg)]_vars

\* C11 witness: the bootstrapped "yes" side [[40, 1], [60, 1]], ascending as
\* only a bootstrap leaves it, with its level at 60 raised in place by a
\* delta of +1 and the level at 40 untouched before it.
C11_Witness ==
    /\ "A" \in DOMAIN orderbooks
    /\ orderbooks["A"]["yes"] = <<<<40, 1>>, <<60, 2>>>>

\* C12 as claimed: on any side, a delta of +d at a price followed by a delta
\* of -d at the same price gives back the side as it was.
C12_RoundTripOnAnySide ==
    \A t \in DOMAIN orderbooks : \A s \in Sides : \A p \in Prices : \A d \in 1..MaxSize :
        ApplyDelta(ApplyDelta(orderbooks[t][s], p, d), p, -d) = orderbooks[t][s]

\* C12 amended: a delta of +d at a price followed by a delta of -d at the
\* same price gives back the side as it was, when the side was sorted
\* descending by price or held a level at that price.
C12_RoundTrip ==
    \A t \in DOMAIN orderbooks : \A s \in Sides : \A p \in Prices : \A d \in 1..MaxSize :
        LET side == orderbooks[t][s] IN
        (SortedDesc(side) \/ ~PriceAbsent(side, p)) =>
            /\ ApplyDelta(ApplyDelta(side, p, d), p, -d) = side
            /\ PriceAbsent(side, p) => ApplyDelta(side, p, d) # side

\* C12 witness: a book whose "yes" side is empty and whose "no" side holds a
\* level at 50 (the round trip inserts and removes (60, d) on the first, and
\* raises and lowers a level on the second), with a level inserted at 60 by
\* a first delta.
C12_Witness ==
    /\ "A" \in DOMAIN orderbooks
    /\ orderbooks["A"]["yes"] = <<<<60, 2>>>>
    /\ orderbooks["A"]["no"] = <<<<50, 1>>>>

\* C16: a delta for a symbol that has no book creates no book and leaves the
\* whole store as it was.
C16_StrayDeltaIgnored ==
    [][\A msg \in DeltaMsgs :
          ("market_ticker" \in DOMAIN msg /\ msg.market_ticker \notin DOMAIN orderbooks) =>
              \/ UNCHANGED <<markets, orderbooks, event_markets>>
              \/ ~HandleOrderbookDelta(msg)]_vars

\* C16 witness: symbol B has a snapshot and no book, beside a book of A with
\* levels: the deltas the venue sends for B find no book.
C16_Witness ==
    /\ "B" \in DOMAIN markets /\ "B" \notin DOMAIN orderbooks
    /\ "A" \in DOMAIN orderbooks /\ orderbooks["A"]["yes"] # <<>>
    /\ \E msg \in DeltaMsgs : "market_ticker" \in DOMAIN msg /\ msg.market_ticker = "B"

----------------------------------------------------------------------------
(* Properties of the streaming client.                                     *)

\* C2: on a connected client a subscribe call writes at most one subscribe
\* command; the command names the channel and exactly the requested symbols
\* that were not tracked on it, and nothing is written when all were.
C2_SubscribeSendsOnlyNew ==
    [][\A channel \in Channels : \A tickers \in Batches : ws = "open" =>
          \/ LET fresh == Elements(tickers) \ Elements(Tracked(subscriptions, channel)) IN
             /\ Len(sent') <= 1
             /\ fresh = {} => sent' = <<>>
             /\ fresh # {} =>
                   /\ Len(sent') = 1
                   /\ sent'[1].cmd = "subscribe"
                   /\ sent'[1].channels = <<channel>>
                   /\ Elements(sent'[1].market_tickers) = fresh
          \/ ~Subscribe(channel, tickers)]_vars

\* C2 witness: ticker_v2 subscribed for [A, B] and then for [B, C] on an open
\* transport; the second call has just written a command for [C] alone.
C2_Witness ==
    /\ ws = "open"
    /\ Tracked(subscriptions, "ticker_v2") = <<"A", "B", "C">>
    /\ sent = <<SubscribeMsg("ticker_v2", <<"C">>)>>

\* C3: while stop() has not been called, a transport failure leaves the
\* client with a reconnect under way (in its backoff sleep or connecting).
C3_FailureIsFollowedByReconnect ==
    (~stopCalled /\ failStreak > 0) => pc \in {"sleeping", "connecting"}

\* C4: once stop() has been called no connect attempt starts and the client
\* is never running again.
C4_StoppedIsTerminal ==
    [][stopCalled =>
          /\ ~is_running'
          /\ pc' \in {"connecting0", "connecting"} => pc' = pc]_vars

\* C5: while stop() has not been called, the delays slept over a run of
\* consecutive failures are 1, 2, 4, ..., capped: one per failure.
C5_BackoffDoubles ==
    ~stopCalled =>
        waits = [i \in 1..failStreak |-> Min(2 ^ (i - 1), MaxReconnectDelay)]

\* C6: the reconnect delay is always between its minimum and its maximum.
C6_DelayInRange == 1 <= reconnect_delay /\ reconnect_delay <= MaxReconnectDelay

\* C6 witness: the delay doubled by a backoff, and kept by the failed
\* attempt that followed.
C6_Witness == reconnect_delay = 2 /\ failStreak = 2 /\ pc = "idle"

C15_DelayResetOnConnect == [][reconnect_delay' = 1 \/ ~ConnectOK]_vars

\* C15 witness: a reconnect after a backoff (which doubled the delay to 2)
\* has just succeeded, resubscribing the three symbols of orderbook_delta in
\* one command, and the delay is 1.
C15_Witness ==
    /\ ws = "open" /\ is_running
    /\ sent = <<SubscribeMsg("orderbook_delta", <<"A", "B", "C">>)>>
    /\ reconnect_delay = 1

----------------------------------------------------------------------------
(* Properties of the receive loop.                                         *)

\* C13: on one connection at most one handler call is under way at a time;
\* the calls begin frame after frame, and within a frame handler after
\* handler from the first registered on; a frame is taken only when no call
\* is under way, and the loop leaves a frame for the next only when the last
\* handler registered for the frame's type has been called and has returned.
C13_FramesInArrivalOrder ==
    /\ [](/\ Cardinality(active_calls) <= 1
          /\ \A h \in active_calls : h = calls[Len(calls)]
          /\ calls # <<>> => calls[1][2] = 1
          /\ \A i \in 1..(Len(calls) - 1) :
                \/ calls[i + 1] = <<calls[i][1], calls[i][2] + 1>>
                \/ calls[i + 1][1] > calls[i][1] /\ calls[i + 1][2] = 1)
    /\ [][/\ Len(frames') > Len(frames) => active_calls = {} /\ lpos = <<"recv", 0>>
          /\ (lpos[1] \in {"call", "await"} /\ lpos'[1] = "recv") =>
                /\ active_calls' = {}
                /\ calls'[Len(calls')] = <<Len(frames), Len(CurrentHandlers)>>]_vars

\* C13 witness: two frames, each dispatched to the two handlers of its type
\* in the order of their registration, every call returned.
C13_Witness ==
    /\ calls = <<<<1, 1>>, <<1, 2>>, <<2, 1>>, <<2, 2>>>>
    /\ active_calls = {}
    /\ lpos = <<"recv", 0>>

\* C20: a frame that cannot be decoded is dropped: no handler is called, the
\* loop stands at its next frame on the same connection, and neither the
\* connection nor the reconnect path is touched.
C20_UndecodableFrameDropped ==
    [][\A frame \in Frames : Undecodable(frame) =>
          \/ /\ calls' = calls
             /\ active_calls' = active_calls
             /\ lpos' = <<"recv", 0>>
             /\ UNCHANGED <<ws, is_running, pc, failStreak, waits>>
          \/ ~Receive(frame)]_vars

\* C20 witness: the first frame of the connection was a text that is no
\* JSON, and the second has been dispatched to a handler on the same
\* connection.
C20_Witness ==
    /\ Len(frames) >= 2
    /\ frames[1] = [is_str |-> TRUE, text |-> "<html>"]
    /\ calls # <<>> /\ calls[1] = <<2, 1>>
    /\ ws = "open"

----------------------------------------------------------------------------
(* Properties of the startup.                                              *)

\* The sync_market of the symbol holds the lock: it is between the lock's
\* acquisition and its release.
InsideLock(t) == sync_pc[t] \in {"market", "book"}

\* C17: at most one sync_market is inside its locked block; the lock is held
\* exactly while one is inside, so it is free again however the block was
\* left; and no stream callback runs, reading or writing the store, while
\* the lock is held.
C17_BootstrapExclusive ==
    /\ [](/\ Cardinality({t \in DOMAIN sync_pc : InsideLock(t)}) <= 1
          /\ \A t \in DOMAIN sync_pc : InsideLock(t) <=> lock = t
          /\ lock # NoneStr => lock \in DOMAIN sync_pc)
    /\ [][msg_count' # msg_count => lock = NoneStr]_vars

\* C17 witness: the sync_market of A holds the lock with the snapshot of A
\* written and its book not yet, a second sync_market of the batch has not
\* begun, and stream callbacks have run before.
C17_Witness ==
    /\ DOMAIN sync_pc = {"A", "B"}
    /\ sync_pc["A"] = "book" /\ sync_pc["B"] = "todo"
    /\ lock = "A"
    /\ "A" \in DOMAIN markets /\ "A" \notin DOMAIN orderbooks
    /\ msg_count > 0

\* C18: whenever a symbol is tracked on a channel, or a subscribe command
\* has been written, every sync_market of the batch has finished, the
\* symbol's own among them.
C18_SubscribeAfterBootstraps ==
    (subscriptions # <<>> \/ sent # <<>>) =>
        /\ \A t \in DOMAIN sync_pc : sync_pc[t] \in {"done", "failed"}
        /\ \A i \in 1..Len(subscriptions) : \A t \in Elements(subscriptions[i][2]) :
              t \in DOMAIN sync_pc /\ sync_pc[t] = "done"

\* C18 witness: the first subscribe command of the batch [A, B] has just
\* been written, both bootstraps being done.
C18_Witness ==
    /\ batch_pc = "orderbook_delta"
    /\ sent = <<SubscribeMsg("ticker_v2", BatchOf(active_tickers, batch_at))>>
    /\ Elements(BatchOf(active_tickers, batch_at)) = {"A", "B"}
    /\ AllSynced(sync_pc)

\* C19: a sync_market whose market call returns nothing writes no snapshot
\* and goes on to the order-book call; one whose order-book call returns
\* nothing writes no book and ends normally, releasing the lock; neither
\* ends start(), which ends early only on a raised exception.
C19_MissingDataTolerated ==
    /\ [][\A t \in Tickers :
              /\ \/ /\ UNCHANGED <<markets, event_markets, orderbooks>>
                    /\ t \in DOMAIN sync_pc' /\ sync_pc'[t] = "book"
                    /\ batch_pc' = batch_pc
                 \/ ~SyncFetchMarket(t, <<>>)
              /\ \/ /\ UNCHANGED <<markets, event_markets, orderbooks>>
                    /\ t \in DOMAIN sync_pc' /\ sync_pc'[t] = "done"
                    /\ lock' = NoneStr
                    /\ batch_pc' = batch_pc
                 \/ ~SyncFetchBook(t, <<>>)]_vars
    /\ [](batch_pc = "crashed" =>
              callerFailed \/ \E t \in DOMAIN sync_pc : sync_pc[t] = "failed")

\* C19 witness: the batch [A, B] is subscribed on its three channels after
\* bootstraps that wrote the snapshot of A without a book, and nothing at
\* all for B.
C19_Witness ==
    /\ batch_pc = "sleep"
    /\ Elements(Tracked(subscriptions, "trade")) = {"A", "B"}
    /\ "A" \in DOMAIN markets /\ "A" \notin DOMAIN orderbooks
    /\ "B" \notin DOMAIN markets /\ "B" \notin DOMAIN orderbooks
    /\ AllSynced(sync_pc)

----------------------------------------------------------------------------
(* Properties of the alerts.                                               *)

\* C7: any two alerts fired for the same key (a symbol, or event:<key>) are
\* more than the cooldown of 30 seconds apart.
C7_AlertsOncePerCooldown ==
    \A key \in DOMAIN alert_log :
        \A i, j \in 1..Len(alert_log[key]) :
            i < j => alert_log[key][j] - alert_log[key][i] > AlertCooldown

\* C7 witness: symbol A alerted at 0 and, its last alert being older than the
\* window, again at 31.
C7_Witness == "A" \in DOMAIN alert_log /\ alert_log["A"] = <<0, 31>>

\* The value a dict has for a key is the value it had, or the key stays
\* absent.
KeyUnchanged(before, after, key) ==
    IF key \in DOMAIN before
    THEN key \in DOMAIN after /\ after[key] = before[key]
    ELSE key \notin DOMAIN after

\* C8: a step after which fewer than two members of an event have a snapshot
\* fires no alert for the event and records none.
C8_NoEventAlertWithOneKnownMember ==
    [][\A i \in 1..Len(event_tickers) :
          LET key == EventAlertKey(event_tickers[i][1])
              known == {m \in Elements(event_tickers[i][2]) : HasSummary(markets', m)}
          IN  Cardinality(known) < 2 =>
                  /\ KeyUnchanged(alert_log, alert_log', key)
                  /\ KeyUnchanged(last_alert, last_alert', key)]_vars

\* C8 witness: event E1 lists A and B, A alone has a snapshot, an update of A
\* has been checked and alerted for A, and no alert for the event exists.
C8_Witness ==
    /\ MembersOf(event_tickers, "E1") = <<"A", "B">>
    /\ HasSummary(markets, "A") /\ ~HasSummary(markets, "B")
    /\ msg_count > 0
    /\ "A" \in DOMAIN alert_log
    /\ EventAlertKey("E1") \notin DOMAIN alert_log

----------------------------------------------------------------------------
(* Properties of the snapshots.                                            *)

\* C9: a ticker update for a known symbol leaves every snapshot field that
\* the frame does not carry at the value it had.
C9_TickerUpdateIsPartialMerge ==
    [][\A msg \in TickerMsgs :
          ("ticker" \in DOMAIN msg /\ msg["ticker"] \in DOMAIN markets
              /\ HandleTickerUpdate(msg)) =>
          \A f \in DOMAIN markets[msg["ticker"]] :
              f \notin DOMAIN msg =>
                  /\ f \in DOMAIN markets'[msg["ticker"]]
                  /\ markets'[msg["ticker"]][f] = markets[msg["ticker"]][f]]_vars

----------------------------------------------------------------------------
(* Frames without a symbol key.                                            *)

\* C21: a ticker, order-book-delta or trade frame that carries no symbol
\* key is ignored: the snapshots, the books, the event index and the alert
\* map are as they were before the frame.
C21_KeylessFrameIgnored ==
    [][\A single_opp, event_opp \in BOOLEAN :
        /\ \A msg \in BotTickerMsgs :
              \/ "ticker" \in DOMAIN msg
              \/ UNCHANGED <<markets, orderbooks, event_markets, last_alert, alert_log>>
              \/ ~OnTickerUpdate(msg, single_opp, event_opp)
        /\ \A msg \in BotDeltaMsgs :
              \/ "market_ticker" \in DOMAIN msg
              \/ UNCHANGED <<markets, orderbooks, event_markets, last_alert, alert_log>>
              \/ ~OnOrderbookUpdate(msg, single_opp, event_opp)
        /\ \A msg \in TradeMsgs :
              \/ "market_ticker" \in DOMAIN msg
              \/ UNCHANGED <<markets, orderbooks, event_markets, last_alert, alert_log>>
              \/ ~OnTradeUpdate(msg, single_opp, event_opp)]_vars

\* Frames have been handled while the store holds a snapshot and a book and
\* no alert has fired: a keyless frame is among the steps that lead here.
C21_Witness ==
    /\ msg_count = MaxMsgCount
    /\ HasSummary(markets, "A")
    /\ "A" \in DOMAIN orderbooks
    /\ "ts" \notin DOMAIN markets["A"]
    /\ bot_is_running
    /\ last_alert = <<>>

----------------------------------------------------------------------------
(* Sides bootstrapped in whatever order, and deltas that miss every level. *)

\* C26: after a bootstrap has stored a side in whatever order the venue
\* returned it, every delta application that changes the side (update in
\* place, removal or insertion) leaves the side sorted descending by price.
C26_ChangedSideIsSorted ==
    [][\/ \A t \in DOMAIN orderbooks : \A s \in Sides :
              orderbooks'[t][s] # orderbooks[t][s] => SortedDesc(orderbooks'[t][s])
       \/ ~(\E msg \in DeltaMsgs : HandleOrderbookDelta(msg))]_vars

\* The frame addresses a side of an existing book with a delta of zero or
\* less at a price the side does not hold.
MissesLevel(msg) ==
    /\ "market_ticker" \in DOMAIN msg
    /\ msg.market_ticker \in DOMAIN orderbooks
    /\ msg.delta <= 0
    /\ PriceAbsent(orderbooks[msg.market_ticker][msg.side], msg.price)

\* C27: a delta of zero or less at a price the addressed side does not hold
\* inserts no level: both sides of the book, and every other book, hold
\* exactly the levels they held.
C27_NonPositiveDeltaAtAbsentPriceIgnored ==
    [][\A msg \in DeltaMsgs : MissesLevel(msg) =>
          \/ /\ DOMAIN orderbooks' = DOMAIN orderbooks
             /\ \A t \in DOMAIN orderbooks : \A s \in Sides :
                   orderbooks'[t][s] = orderbooks[t][s]
          \/ ~HandleOrderbookDelta(msg)]_vars

\* C27 witness: a book whose "no" side holds the levels at 60 and 40 only,
\* so that the deltas of zero or less at 50 miss every level of it.
C27_Witness ==
    /\ "A" \in DOMAIN orderbooks
    /\ orderbooks["A"]["no"] = <<<<60, 1>>, <<40, 2>>>>
    /\ \E msg \in DeltaMsgs :
          /\ MissesLevel(msg)
          /\ msg.side = "no"
          /\ msg.price = 50
          /\ msg.delta = 0

----------------------------------------------------------------------------
(* The event index.                                                        *)

\* C28: the event index covers the bootstrapped symbols and those first
\* observed through the stream: every symbol with a snapshot is a member of
\* the event its summary reports, and no event lists a symbol twice.
C28_EverySnapshotIndexed ==
    /\ \A t \in DOMAIN markets :
          HasSummary(markets, t) =>
              /\ SummaryEvent(markets, t) \in DOMAIN event_markets
              /\ IsTracked(event_markets[SummaryEvent(markets, t)], t)
    /\ \A e \in DOMAIN event_markets :
          \A i, j \in 1..Len(event_markets[e]) :
              event_markets[e][i] = event_markets[e][j] => i = j

----------------------------------------------------------------------------
(* What writes the order books.                                            *)

\* C29: a ticker update and a trade update leave every book as it was, none
\* created, removed or modified; a step that changes the books is a
\* bootstrap or the application of a delta, and only a bootstrap adds a book.
C29_OnlyBootstrapAndDeltaWriteBooks ==
    [][/\ \A single_opp, event_opp \in BOOLEAN :
           /\ \A msg \in BotTickerMsgs :
                 \/ orderbooks' = orderbooks
                 \/ ~OnTickerUpdate(msg, single_opp, event_opp)
           /\ \A msg \in TradeMsgs :
                 \/ orderbooks' = orderbooks
                 \/ ~OnTradeUpdate(msg, single_opp, event_opp)
       /\ \/ orderbooks' = orderbooks
          \/ \E t \in Tickers : \E m \in RestMarkets(t) : \E ob \in BotRestBooks(t) :
                SyncMarket(t, m, ob)
          \/ /\ DOMAIN orderbooks' = DOMAIN orderbooks
             /\ \E msg \in BotDeltaMsgs : \E single_opp, event_opp \in BOOLEAN :
                   OnOrderbookUpdate(msg, single_opp, event_opp)]_vars

\* C29 witness: the book of A holds the level a delta inserted, after a
\* ticker update of A (its snapshot carries the frame's ts key) and with
\* all the frames of the run handled.
C29_Witness ==
    /\ "A" \in DOMAIN orderbooks
    /\ orderbooks["A"]["yes"] = <<<<50, 2>>>>
    /\ HasSummary(markets, "A")
    /\ "ts" \in DOMAIN markets["A"]
    /\ msg_count = MaxMsgCount

----------------------------------------------------------------------------
(* The heartbeat.                                                          *)

\* C30: the literal heartbeat frame is ignored: no observer is called, the
\* store, the subscription registry, the count of processed messages and
\* the state of the connection are as they were, and the loop waits for the
\* next frame.
C30_HeartbeatIgnored ==
    [][\/ /\ calls' = calls
          /\ active_calls' = active_calls
          /\ lpos' = <<"recv", 0>>
          /\ UNCHANGED <<markets, orderbooks, event_markets>>
          /\ UNCHANGED <<subscriptions, handlers, msg_count>>
          /\ UNCHANGED <<ws, is_running, pc, reconnect_delay, failStreak, waits>>
       \/ ~Receive([is_str |-> TRUE, text |-> "heartbeat"])]_vars

\* C30 witness: the first frame of the connection was the heartbeat, and
\* the second has been dispatched to a handler on the same connection.
C30_Witness ==
    /\ Len(frames) >= 2
    /\ frames[1] = [is_str |-> TRUE, text |-> "heartbeat"]
    /\ calls # <<>> /\ calls[1] = <<2, 1>>
    /\ ws = "open"
    /\ is_running

----------------------------------------------------------------------------
(* What the throttle records.                                              *)

\* The step is a callback for the symbol, the analyzer answering single_opp
\* for the market and event_opp for the event.
CheckedBy(ticker, single_opp, event_opp) ==
    \/ \E msg \in BotTickerMsgs :
          GetStr(msg, "ticker") = ticker /\ OnTickerUpdate(msg, single_opp, event_opp)
    \/ \E msg \in BotDeltaMsgs :
          /\ GetStr(msg, "market_ticker") = ticker
          /\ OnOrderbookUpdate(msg, single_opp, event_opp)
    \/ \E msg \in TradeMsgs :
          /\ GetStr(msg, "market_ticker") = ticker
          /\ OnTradeUpdate(msg, single_opp, event_opp)

\* The key is absent from the map, or its time is more than 30 seconds old.
Allowed(key) == key \notin DOMAIN last_alert \/ now - last_alert[key] > 30

Recorded(key) == key \in DOMAIN last_alert' /\ last_alert'[key] = now

\* C23 as claimed: whenever the gate allows a key at time now, now is
\* recorded as the key's last-alert time; otherwise the key's entry is
\* unchanged. The gate is consulted for a symbol with a snapshot and for an
\* event of more than one member.
C23_GateRecordsWheneverItAllows ==
    [][\A ticker \in Tickers : \A single_opp, event_opp \in BOOLEAN :
          \/ LET event == EventOf(event_tickers, ticker)
                 key == EventAlertKey(event)
             IN  /\ HasSummary(markets', ticker) =>
                        IF Allowed(ticker) THEN Recorded(ticker)
                        ELSE KeyUnchanged(last_alert, last_alert', ticker)
                 /\ (event # NoneStr /\ Len(MembersOf(event_tickers, event)) > 1) =>
                        IF Allowed(key) THEN Recorded(key)
                        ELSE KeyUnchanged(last_alert, last_alert', key)
          \/ ~CheckedBy(ticker, single_opp, event_opp)]_vars

\* C23: now is recorded as the key's last-alert time exactly when the gate
\* allows the key and the analyzer, run for the key, reports an opportunity
\* (for an event it runs with more than one member known); when the gate
\* refuses or nothing is reported the key's entry is unchanged, as is every
\* other entry.
C23_GateRecordsOnAlert ==
    [][\A ticker \in Tickers : \A single_opp, event_opp \in BOOLEAN :
          \/ msg_count' = msg_count
          \/ LET event == EventOf(event_tickers, ticker)
                 members == Elements(MembersOf(event_tickers, event))
                 key == EventAlertKey(event)
                 known == {m \in members : HasSummary(markets', m)}
             IN  /\ IF HasSummary(markets', ticker) /\ Allowed(ticker) /\ single_opp
                    THEN Recorded(ticker)
                    ELSE KeyUnchanged(last_alert, last_alert', ticker)
                 /\ IF /\ event # NoneStr
                       /\ Len(MembersOf(event_tickers, event)) > 1
                       /\ Allowed(key)
                       /\ Cardinality(known) > 1
                       /\ event_opp
                    THEN Recorded(key)
                    ELSE KeyUnchanged(last_alert, last_alert', key)
                 /\ \A k \in (DOMAIN last_alert \cup DOMAIN last_alert') \ {ticker, key} :
                       KeyUnchanged(last_alert, last_alert', k)
          \/ ~CheckedBy(ticker, single_opp, event_opp)]_vars

\* C23 witness: symbol A, first alerted at 31 after frames were checked,
\* while event E1, which lists A and B, has no entry: with B unknown the
\* analyzer never ran for it, or it ran and reported nothing.
C23_Witness ==
    /\ "A" \in DOMAIN last_alert
    /\ last_alert["A"] = 31
    /\ alert_log["A"] = <<31>>
    /\ msg_count >= 2
    /\ MembersOf(event_tickers, "E1") = <<"A", "B">>
    /\ EventAlertKey("E1") \notin DOMAIN last_alert

----------------------------------------------------------------------------
(* The selection of the symbols to track.                                  *)

\* The markets of the listing the selection keeps: open or active, with a
\* positive volume unless no open or active market has one.
Kept(all_markets) ==
    LET listed == Elements(all_markets)
        traded == {m \in listed : IsOpen(m) /\ Volume(m) > 0}
    IN  IF traded # {} THEN traded ELSE {m \in listed : IsOpen(m)}

\* The summed volume of the kept markets of an event.
EventVolume(all_markets, event) ==
    SumVolume(SelectSeq(all_markets,
                        LAMBDA m : m \in Kept(all_markets) /\ EventKeyOf(m) = event))

\* C25: the selection tracks the member symbols of the top 20 events by
\* summed member volume: at most 20 events are selected, as many as there
\* are when fewer; a selected event's summed volume is at least that of
\* every unselected event; the tracked symbols are the kept markets of the
\* selected events, each open or active, and one of volume zero is tracked
\* only when no open or active market has a positive volume.
C25_SelectionTracksTopEvents ==
    listing # <<>> =>
        LET kept == Kept(listing)
            events == {EventKeyOf(m) : m \in kept}
            selected == {event_tickers[i][1] : i \in 1..Len(event_tickers)}
            tracked == Elements(active_tickers)
        IN  /\ Len(event_tickers) <= 20
            /\ Cardinality(selected) = Len(event_tickers)
            /\ selected \subseteq events
            /\ Cardinality(events) <= 20 => selected = events
            /\ Cardinality(events) > 20 => Cardinality(selected) = 20
            /\ \A e \in selected : \A u \in events \ selected :
                  EventVolume(listing, e) >= EventVolume(listing, u)
            /\ tracked = {m.ticker : m \in {k \in kept : EventKeyOf(k) \in selected}}
            /\ \A i \in 1..Len(event_tickers) :
                  Elements(event_tickers[i][2]) =
                      {m.ticker : m \in {k \in kept : EventKeyOf(k) = event_tickers[i][1]}}
            /\ \A m \in Elements(listing) :
                  m.ticker \in tracked =>
                      /\ IsOpen(m)
                      /\ Volume(m) = 0 =>
                             \A o \in Elements(listing) : IsOpen(o) => Volume(o) = 0

\* C25 witness: 20 events selected out of the 21 of a listing, the event of
\* the least volume left out.
C25_Witness ==
    /\ Len(listing) = 21
    /\ Len(event_tickers) = 20
    /\ Len(active_tickers) = 20
    /\ \A i \in 1..20 : event_tickers[i][1] # "L21"
    /\ bot_is_running

----------------------------------------------------------------------------
(* Failures of the REST calls.                                             *)

\* The response is a failure of the request: no response at all, an error
\* status, or a body that cannot be decoded.
FailedResponse(resp) ==
    resp.kind = "error" \/ resp.status >= 400 \/ resp.body = "invalid"

\* C24: get_market_by_ticker and get_market_orderbook never end with an
\* error raised to their caller; a call whose last response is a failure
\* returns None, and a 429 is the last response only after the call has
\* slept and sent its retry, or when its Retry-After header is no number.
C24_RestFailureIsAbsentResult ==
    /\ ~rest_result.raised
    /\ (rest_pc = "idle" /\ request_count > 0 /\ FailedResponse(rest_response)) =>
          /\ rest_result.value = "None"
          /\ rest_response.status = 429 =>
                 \/ rest_waits # <<>>
                 \/ rest_response.retry_after = "soon"

\* C24 witness: the order-book call got a 429, slept, got a 429 on its
\* retry too, and ended returning None.
C24_Witness ==
    /\ rest_pc = "idle"
    /\ rest_call[1] = "get_market_orderbook"
    /\ rest_response.status = 429
    /\ Len(rest_waits) = 2
    /\ rest_result = [raised |-> FALSE, value |-> "None"]

----------------------------------------------------------------------------
(* After the orchestrator's stop().                                        *)

\* C22: once the orchestrator's stop() has been called, no subscribe call
\* is made (the handlers and the subscription registry stay as they are),
\* the batch loop bootstraps no further batch, and no reconnect is attempted.
C22_NothingAfterStop ==
    [][stopCalled =>
          /\ handlers' = handlers
          /\ subscriptions' = subscriptions
          /\ batch_pc' = "gather" => batch_pc = "gather"
          /\ pc' = pc \/ pc' # "connecting"]_vars

----------------------------------------------------------------------------
(* What a delta leaves alone.                                              *)

\* The levels of the side at prices other than the given one.
LevelsElsewhere(levels, price) == SelectSeq(levels, LAMBDA l : l[1] # price)

\* C39: a delta addressed to a side of a symbol's book changes at most the
\* level at its price on that side: the levels of the side at every other
\* price are the ones they were, the opposite side, every other symbol's
\* book, the snapshots and the event index are unchanged.
C39_DeltaTouchesOneLevel ==
    [][\A msg \in DeltaMsgs :
          ("market_ticker" \in DOMAIN msg /\ msg.market_ticker \in DOMAIN orderbooks) =>
              \/ LET t == msg.market_ticker
                     other == IF msg.side = "yes" THEN "no" ELSE "yes"
                 IN  /\ DOMAIN orderbooks' = DOMAIN orderbooks
                     /\ \A u \in DOMAIN orderbooks \ {t} : orderbooks'[u] = orderbooks[u]
                     /\ orderbooks'[t][other] = orderbooks[t][other]
                     /\ SameLevels(LevelsElsewhere(orderbooks'[t][msg.side], msg.price),
                                   LevelsElsewhere(orderbooks[t][msg.side], msg.price))
                     /\ Len(LevelsElsewhere(orderbooks'[t][msg.side], msg.price))
                            >= Len(orderbooks'[t][msg.side]) - 1
                     /\ markets' = markets
                     /\ event_markets' = event_markets
              \/ ~HandleOrderbookDelta(msg)]_vars

\* C39 witness: the level at 50 of the "no" side of A raised from 1 to 2 by
\* a delta, next to the "yes" side as the bootstrap stored it, and the
\* snapshot of A in place.
C39_Witness ==
    /\ "A" \in DOMAIN orderbooks
    /\ orderbooks["A"]["yes"] = <<<<60, 1>>, <<40, 2>>>>
    /\ orderbooks["A"]["no"] = <<<<50, 2>>>>
    /\ HasSummary(markets, "A")

----------------------------------------------------------------------------
(* The sides of a book.                                                    *)

\* C38: every order book has exactly the two sides yes and no, next to its
\* timestamp: a delta that names another side adds no side to the book.
C38_BookHasTwoSides ==
    \A t \in DOMAIN orderbooks : DOMAIN orderbooks[t] = {"yes", "no", "ts"}

----------------------------------------------------------------------------
(* The tracked lists of the client.                                        *)

\* C36: after any sequence of subscribe calls the tracked list of each
\* channel holds no symbol twice, also when one call names a symbol twice.
C36_TrackedListHasNoDuplicate ==
    \A c \in 1..Len(subscriptions) :
        \A i, j \in 1..Len(subscriptions[c][2]) :
            subscriptions[c][2][i] = subscriptions[c][2][j] => i = j

----------------------------------------------------------------------------
(* Faults of observers.                                                    *)

\* C33: when an observer raises while it handles a frame the fault stays
\* with that frame: the connection is kept, the receive loop goes on and no
\* reconnect is started.
C33_ObserverFaultContained ==
    [][\/ /\ ws' = ws
          /\ is_running' = is_running
          /\ lpos'[1] # "none"
          /\ pc' = pc
          /\ waits' = waits
       \/ ~HandlerRaises]_vars

----------------------------------------------------------------------------
(* Receive loops and transports across reconnects.                         *)

\* C34: at most one receive loop reads and dispatches at any time: when a
\* connect starts the loop of a new connection, the loop of the connection
\* before it has ended and none of its handler calls is still running.
C34_OneReceiveLoop ==
    [][(lpos[1] = "none" /\ active_calls = {}) \/ ~ConnectOK]_vars

\* C34 witness: the loop of a second connection reading, right after the
\* replay of the two symbols subscribed one by one on the first.
C34_Witness ==
    /\ ws = "open" /\ lpos = <<"recv", 0>> /\ frames = <<>>
    /\ sent = <<SubscribeMsg("ticker_v2", <<"A", "B">>)>>


\* C35: at most one transport is open at any time: a connect opens a
\* transport only when the one before it is closed, and once stop() has been
\* called no transport is open.
C35_OneTransportOpen ==
    [][/\ ConnectOK => ws # "open"
       /\ stopCalled' => ws' # "open"]_vars

----------------------------------------------------------------------------
(* Subscribing without a transport.                                        *)

\* The symbol is in one of the commands sent for the channel.
Replayed(cmds, channel, ticker) ==
    \E k \in 1..Len(cmds) :
        /\ cmds[k].channels = <<channel>>
        /\ IsTracked(cmds[k].market_tickers, ticker)

----------------------------------------------------------------------------
(* Frames and the callbacks registered by the startup batches.             *)

\* C31: an order-book frame that is dispatched is applied to the store once
\* and counted once, however many batches subscribed with the callback.
C31_FrameAppliedOnce ==
    [][\A msg \in FanoutMsgs :
          \/ /\ msg_count' = msg_count + 1
             /\ orderbooks' = handle_orderbook_delta(orderbooks, msg, now)
          \/ ~DispatchDelta(msg)]_vars

----------------------------------------------------------------------------
(* The commands sent on one connection.                                    *)

\* C32: on one connection no symbol is sent in two subscribe commands of
\* the same channel, also when a subscribe call runs between two sends of
\* the replay that follows a reconnect.
C32_NoSymbolSentTwice ==
    \A j, k \in 1..Len(wire) :
        (j < k /\ wire[j].channels = wire[k].channels) =>
            \A i \in 1..Len(wire[j].market_tickers) :
                ~IsTracked(wire[k].market_tickers, wire[j].market_tickers[i])

====
